---- MODULE Spec2Model ----
(***************************************************************************)
(* A model of the luminal CUDA backend: the graph-rewriting compiler       *)
(* passes (CudaPrimitiveCompiler, CopyCompiler), the kernel loader, the    *)
(* boundary operators and the expression lowering.                         *)
(***************************************************************************)
EXTENDS Integers, Sequences, FiniteSets, TLC

VARIABLES
    \* the compiler passes
    graph,      \* the graph being compiled
    pc,         \* where the passes are
    runs,       \* runs of the primitive substitution pass begun so far
    sweeps,     \* sweeps of the copy-fusion pass begun so far
    snap,       \* the graph when the current run of the substitution pass began
    cands,      \* the candidate pairs the current sweep has yet to go through
    \* the kernel loader
    hashOf,     \* hash(): the 64-bit hash of each source text
    devs,       \* the CudaDevice objects made so far, each with its loaded functions
    compiles,   \* calls of compile_ptx_with_opts so far
    calls,      \* the calls of compile_and_load_kernel so far
    \* expression lowering
    expr,       \* a symbolic expression of a shape
    env,        \* the values of its variables
    lowered,    \* what expr_to_cuda_string made of it
    epc,        \* whether it has been lowered
    \* the boundary operators
    elt,        \* the element type T the operators were made for
    orig,       \* the host vector the run began with
    tensor,     \* the tensor the next operator is handed
    trail,      \* the calls of process so far
    \* the compute operators
    inputs,     \* the input tensors of an operator, each with its shape
    opr,        \* the operator constructed for them
    result,     \* what its process returned
    opc         \* how far the operator has come

gvars == <<graph, pc, runs, sweeps, snap, cands>>

kvars == <<hashOf, devs, compiles, calls>>

evars == <<expr, env, lowered, epc>>

bvars == <<elt, orig, tensor, trail>>

cvars == <<inputs, opr, result, opc>>

vars == <<graph, pc, runs, sweeps, snap, cands, hashOf, devs, compiles, calls,
          expr, env, lowered, epc, elt, orig, tensor, trail, inputs, opr, result, opc>>

(***************************************************************************)
(* Bounds of the model.                                                    *)
(***************************************************************************)
\* Largest number of nodes of a graph handed to the compiler passes.
MaxNodes == 3
\* Largest number of nodes marked (kept or retrieved) in such a graph.
MaxMarked == 1
\* Largest number of runs of the primitive substitution pass on one graph.
MaxRuns == 2
\* Largest number of sweeps of the copy-fusion pass on one graph.
MaxSweeps == 2
\* Largest number of CudaDevice objects made in one process.
MaxDevices == 2
\* Largest number of calls of compile_and_load_kernel in one process.
MaxCalls == 3
\* Number of values the hash of a source text can take.
NumHashes == 2
\* Largest number of terms of an expression.
MaxTerms == 5

\* The length of an expression that need not be well formed.
MaxSurplus == 4
\* Largest number of nodes of a graph with primitives of every kind.
MaxKinded == 2
\* Largest number of nodes of a graph handed to the copy-fusion pass alone.
MaxCopied == 4
\* Largest number of unary primitives chained behind a graph input.
MaxChain == 2
\* Largest length of the host vector set on a graph input.
MaxInput == 3
\* Largest logical index an expression is evaluated at.
MaxIndex == 2
\* Largest value of a dynamic dimension symbol.
MaxSymbol == 2
\* Largest length of a host vector handed to the boundary operators.
MaxLen == 2
\* Largest number of boundary operators applied in a row.
MaxOps == 3
\* Largest rank of an input shape of a compute operator.
MaxRank == 2
\* Largest size of a dimension of such a shape.
MaxDimSize == 3

(***************************************************************************)
(* The graph: petgraph's StableGraph (node and edge slots that keep their  *)
(* index, vacant after removal) plus luminal's to_retrieve and no_delete.  *)
(* Node n is slot n; an edge's stamp orders the adjacency lists, which     *)
(* petgraph iterates newest edge first.                                    *)
(***************************************************************************)
NoNode == [op |-> "vacant", arg |-> 0]

NoEdge == [src |-> 0, dst |-> 0, io |-> 0, oo |-> 0, shape |-> <<>>, stamp |-> 0]

CopyTo == [op |-> "CudaCopyToDevice", arg |-> 0]

CopyFrom == [op |-> "CudaCopyFromDevice", arg |-> 0]

\* Dependency::Data { input_order, output_order, shape }
Data(io, oo, shape) == [io |-> io, oo |-> oo, shape |-> shape]

Weight(r) == Data(r.io, r.oo, r.shape)

\* graph.node_indices()
NodeIds(g) == {n \in 1..Len(g.nodes) : g.nodes[n] # NoNode}

\* graph.edge_indices()
EdgeIds(g) == {e \in 1..Len(g.edges) : g.edges[e] # NoEdge}

RECURSIVE SortAsc(_)
\* The members of a set of indices in index order.
SortAsc(S) ==
    IF S = {} THEN <<>>
    ELSE LET m == CHOOSE x \in S : \A y \in S : x <= y
         IN  <<m>> \o SortAsc(S \ {m})

RECURSIVE NewestFirst(_, _)
\* An adjacency list: petgraph links a new edge at the head of the list.
NewestFirst(g, E) ==
    IF E = {} THEN <<>>
    ELSE LET m == CHOOSE e \in E : \A f \in E : g.edges[f].stamp <= g.edges[e].stamp
         IN  <<m>> \o NewestFirst(g, E \ {m})

\* graph.edges_directed(n, Outgoing); empty for a removed node
OutEdges(g, n) == NewestFirst(g, {e \in EdgeIds(g) : g.edges[e].src = n})

\* graph.edges_directed(n, Incoming)
InEdges(g, n) == NewestFirst(g, {e \in EdgeIds(g) : g.edges[e].dst = n})

\* graph.add_node: a new slot at the end (no slot is vacant when this runs)
AddNode(g, payload) == [g EXCEPT !.nodes = Append(@, payload)]

\* graph.add_edge: the most recently vacated slot is used again, else a new one
AddEdge(g, s, d, w) ==
    LET r == [src |-> s, dst |-> d, io |-> w.io, oo |-> w.oo,
              shape |-> w.shape, stamp |-> g.clock + 1]
    IN  IF g.free # <<>>
        THEN [g EXCEPT !.edges[Head(g.free)] = r, !.free = Tail(@), !.clock = @ + 1]
        ELSE [g EXCEPT !.edges = Append(@, r), !.clock = @ + 1]

\* graph.remove_edge
RemoveEdge(g, e) ==
    IF e \in EdgeIds(g)
    THEN [g EXCEPT !.edges[e] = NoEdge, !.free = <<e>> \o @]
    ELSE g

RECURSIVE RemoveEdges(_, _)
RemoveEdges(g, es) ==
    IF es = <<>> THEN g ELSE RemoveEdges(RemoveEdge(g, Head(es)), Tail(es))

\* graph.remove_node: the outgoing edges go first, then the incoming ones
RemoveNode(g, n) ==
    IF n \notin NodeIds(g) THEN g
    ELSE LET g1 == RemoveEdges(g, OutEdges(g, n))
             g2 == RemoveEdges(g1, InEdges(g1, n))
         IN  [g2 EXCEPT !.nodes[n] = NoNode]

\* graph.add_op(op).input(src, 0, shape).finish(); the new node is Len(nodes)
AddOp1(g, payload, src, shape) ==
    LET g1 == AddNode(g, payload)
    IN  AddEdge(g1, src, Len(g1.nodes), Data(0, 0, shape))

\* move_references(remap, no_delete, to_retrieve, src, trg)
MoveReferences(g, src, trg) ==
    [g EXCEPT !.keep = IF src \in @ THEN (@ \ {src}) \cup {trg} ELSE @,
              !.ret  = IF src \in @ THEN (@ \ {src}) \cup {trg} ELSE @]

IsCopyTo(g, n) == n \in NodeIds(g) /\ g.nodes[n] = CopyTo

IsCopyFrom(g, n) == n \in NodeIds(g) /\ g.nodes[n] = CopyFrom

(***************************************************************************)
(* CudaPrimitiveCompiler::compile, stage by stage.  A stage yields the     *)
(* graph it leaves and whether it ran to its end (ok) or aborted on an     *)
(* unwrap or an index out of range.                                        *)
(***************************************************************************)
RECURSIVE MoveEdgesTo(_, _, _)
\* for each collected edge: add_edge(copy_node, dest, weight); remove_edge(edge_id)
MoveEdgesTo(g, es, from) ==
    IF es = <<>> THEN g
    ELSE LET e == Head(es)
             r == g.edges[e]
         IN  MoveEdgesTo(RemoveEdge(AddEdge(g, from, r.dst, Weight(r)), e), Tail(es), from)

RECURSIVE InsertCopyFrom(_, _, _)
\* for each incoming edge of the function: a CudaCopyFromDevice between
\* its source and the function
InsertCopyFrom(g, es, f) ==
    IF es = <<>> THEN g
    ELSE LET e  == Head(es)
             r  == g.edges[e]
             g1 == AddOp1(g, CopyFrom, r.src, <<>>)
             g2 == AddEdge(g1, Len(g1.nodes), f, Weight(r))
         IN  InsertCopyFrom(RemoveEdge(g2, e), Tail(es), f)

\* Variant: the edge to the new copy node is moved with the others.
FunctionCopies_NoFilter(g, f) ==
    LET g1   == AddOp1(g, CopyTo, f, <<>>)
        c    == Len(g1.nodes)
        g2   == MoveEdgesTo(g1, OutEdges(g1, f), c)
        g3   == IF f \in g2.ret THEN [g2 EXCEPT !.ret = @ \cup {c}] ELSE g2
    IN  InsertCopyFrom(g3, InEdges(g3, f), f)

\* Variant: retrieval stays with the function alone.
FunctionCopies_NoRetrieval(g, f) ==
    LET g1   == AddOp1(g, CopyTo, f, <<>>)
        c    == Len(g1.nodes)
        outs == SelectSeq(OutEdges(g1, f), LAMBDA e : g1.edges[e].dst # c)
        g2   == MoveEdgesTo(g1, outs, c)
    IN  InsertCopyFrom(g2, InEdges(g2, f), f)

\* The body of the loop over the function nodes.
FunctionCopies(g, f) ==
    LET g1   == AddOp1(g, CopyTo, f, <<>>)
        c    == Len(g1.nodes)
        outs == SelectSeq(OutEdges(g1, f), LAMBDA e : g1.edges[e].dst # c)
        g2   == MoveEdgesTo(g1, outs, c)
        g3   == IF f \in g2.ret THEN [g2 EXCEPT !.ret = @ \cup {c}] ELSE g2
    IN  InsertCopyFrom(g3, InEdges(g3, f), f)

RECURSIVE FunctionLoop(_, _)
FunctionLoop(g, fs) ==
    IF fs = <<>> THEN g ELSE FunctionLoop(FunctionCopies(g, Head(fs)), Tail(fs))

\* Variant: the filter looks at the incoming edges instead of the outgoing ones.
FunctionNodes_Incoming(g) ==
    SortAsc({n \in NodeIds(g) :
               g.nodes[n].op = "Function" /\ InEdges(g, n) # <<>>})

\* The function nodes that have an outgoing edge, in index order.
FunctionNodes(g) ==
    SortAsc({n \in NodeIds(g) :
               g.nodes[n].op = "Function" /\ OutEdges(g, n) # <<>>})

\* Stage A: copy function outputs to the device and function inputs from it.
StageA(g) == FunctionLoop(g, FunctionNodes(g))

RECURSIVE Product(_)
\* ShapeTracker::n_physical_elements of an unpadded shape
Product(dims) == IF dims = <<>> THEN 1 ELSE Head(dims) * Product(Tail(dims))

RECURSIVE MaxByKey(_, _, _)
\* Iterator::max_by_key: of several largest elements the last one is returned
MaxByKey(g, es, best) ==
    IF es = <<>> THEN best
    ELSE LET s == g.edges[Head(es)].shape
         IN  MaxByKey(g, Tail(es), IF Product(s) >= Product(best) THEN s ELSE best)

\* The retrieved nodes that are not functions.
RetrieveNodes(g) == {n \in g.ret : n \in NodeIds(g) /\ g.nodes[n].op # "Function"}

\* The largest shape on an incoming data edge of n.
OutputShape(g, n) ==
    LET es == InEdges(g, n) IN MaxByKey(g, Tail(es), g.edges[Head(es)].shape)

\* Variant: the references stay with the retrieved node.
RetrieveCopy_NoMove(g, n, shape) ==
    IF g.nodes[n] = CopyTo
    THEN LET src == g.edges[Head(InEdges(g, n))].src
         IN  [g EXCEPT !.keep = (@ \ {n}) \cup {src}, !.ret = (@ \ {n}) \cup {src}]
    ELSE AddOp1(g, CopyFrom, n, shape)

\* The body of the loop over the retrieved nodes.
RetrieveCopy(g, n, shape) ==
    IF g.nodes[n] = CopyTo
    THEN LET src == g.edges[Head(InEdges(g, n))].src
         IN  [g EXCEPT !.keep = (@ \ {n}) \cup {src}, !.ret = (@ \ {n}) \cup {src}]
    ELSE LET g1 == AddOp1(g, CopyFrom, n, shape)
         IN  MoveReferences(g1, n, Len(g1.nodes))

RECURSIVE RetrieveLoop(_, _, _)
RetrieveLoop(g, ns, shapes) ==
    IF ns = <<>> THEN g
    ELSE RetrieveLoop(RetrieveCopy(g, Head(ns), shapes[Head(ns)]), Tail(ns), shapes)

\* Variant: a retrieved node without an incoming edge is passed over.
StageB_PassOver(g, ns) ==
    IF \E n \in g.ret : n \notin NodeIds(g)
    THEN [g |-> g, ok |-> FALSE]
    ELSE [g  |-> RetrieveLoop(g, SelectSeq(ns, LAMBDA n : InEdges(g, n) # <<>>),
                              [n \in {m \in RetrieveNodes(g) : InEdges(g, m) # <<>>} |->
                                  OutputShape(g, n)]),
          ok |-> TRUE]

\* Stage B, the retrieved nodes taken in the order ns (the order in which the
\* hash set to_retrieve yields them): copy the retrieved tensors from the device.
StageB(g, ns) ==
    IF \E n \in g.ret : n \notin NodeIds(g) \/ (n \in RetrieveNodes(g) /\ InEdges(g, n) = <<>>)
    THEN [g |-> g, ok |-> FALSE]
    ELSE [g  |-> RetrieveLoop(g, ns, [n \in RetrieveNodes(g) |-> OutputShape(g, n)]),
          ok |-> TRUE]

\* The orders in which a set can be iterated.
Orders(S) ==
    {s \in [1..Cardinality(S) -> S] : \A i, j \in 1..Cardinality(S) : s[i] = s[j] => i = j}

\* The Print nodes, in index order.
PrintNodes(g) == SortAsc({n \in NodeIds(g) : g.nodes[n].op = "Print"})

RECURSIVE PrintLoop(_, _)
\* for each print and its first incoming edge: a CudaCopyFromDevice between
\* the edge's source and the print
PrintLoop(g, es) ==
    IF es = <<>> THEN g
    ELSE LET e  == Head(es)
             r  == g.edges[e]
             g1 == AddOp1(g, CopyFrom, r.src, r.shape)
             g2 == AddEdge(g1, Len(g1.nodes), r.dst, Data(0, 0, r.shape))
         IN  PrintLoop(RemoveEdge(g2, e), Tail(es))

\* Stage C: copy the inputs of prints from the device.
StageC(g) ==
    IF \E n \in NodeIds(g) : g.nodes[n].op = "Print" /\ InEdges(g, n) = <<>>
    THEN [g |-> g, ok |-> FALSE]
    ELSE LET ps == PrintNodes(g)
         IN  [g  |-> PrintLoop(g, [i \in 1..Len(ps) |-> Head(InEdges(g, ps[i]))]),
              ok |-> TRUE]

\* The primitive kinds stage D knows, and the input shapes each constructor takes.
UnaryKinds == {"Log2", "Exp2", "Sin", "Recip", "Sqrt"}

BinaryKinds == {"Add", "Mul", "Mod", "LessThan"}

ShapedKinds == {"Contiguous", "SumReduce", "MaxReduce"}

PrimitiveKinds == UnaryKinds \cup {"Constant"} \cup BinaryKinds \cup ShapedKinds

ShapesNeeded(op) ==
    IF op \in BinaryKinds THEN 2 ELSE IF op \in ShapedKinds THEN 1 ELSE 0

\* The number of incoming data edges of n (the length of `shapes`).
NumShapes(g, n) == Len(InEdges(g, n))

\* The device operator that replaces a primitive.
CudaOp(payload) ==
    [op |-> (CASE payload.op = "Log2" -> "CudaLog2"
               [] payload.op = "Exp2" -> "CudaExp2"
               [] payload.op = "Sin" -> "CudaSin"
               [] payload.op = "Constant" -> "CudaConstant"
               [] payload.op = "Recip" -> "CudaRecip"
               [] payload.op = "Sqrt" -> "CudaSqrt"
               [] payload.op = "Add" -> "CudaAdd"
               [] payload.op = "Mul" -> "CudaMul"
               [] payload.op = "Mod" -> "CudaMod"
               [] payload.op = "LessThan" -> "CudaLessThan"
               [] payload.op = "Contiguous" -> "CudaContiguous"
               [] payload.op = "SumReduce" -> "CudaSumReduce"
               [] payload.op = "MaxReduce" -> "CudaMaxReduce"),
     arg |-> payload.arg]

\* Whether the pass swaps the payload of a node.
IsPrimitive(payload) == payload.op \in PrimitiveKinds

RECURSIVE SwapLoop_Skip(_, _)
\* Variant: a node with too few incoming data edges is passed over.
SwapLoop_Skip(g, ns) ==
    IF ns = <<>> THEN [g |-> g, ok |-> TRUE]
    ELSE LET n == Head(ns)
             p == g.nodes[n]
         IN  IF ~IsPrimitive(p) \/ NumShapes(g, n) < ShapesNeeded(p.op)
             THEN SwapLoop_Skip(g, Tail(ns))
             ELSE SwapLoop_Skip([g EXCEPT !.nodes[n] = CudaOp(p)], Tail(ns))

RECURSIVE SwapLoop_SkipReduce(_, _)
\* Variant: the reductions are not among the kinds that are swapped.
SwapLoop_SkipReduce(g, ns) ==
    IF ns = <<>> THEN [g |-> g, ok |-> TRUE]
    ELSE LET n == Head(ns)
             p == g.nodes[n]
         IN  IF ~IsPrimitive(p) \/ p.op \in {"SumReduce", "MaxReduce"}
             THEN SwapLoop_SkipReduce(g, Tail(ns))
             ELSE IF NumShapes(g, n) < ShapesNeeded(p.op) THEN [g |-> g, ok |-> FALSE]
             ELSE SwapLoop_SkipReduce([g EXCEPT !.nodes[n] = CudaOp(p)], Tail(ns))

RECURSIVE SwapLoop(_, _)
\* for id in node_indices: replace the payload in place; shapes[k] of a
\* node with too few incoming data edges is an index out of range
SwapLoop(g, ns) ==
    IF ns = <<>> THEN [g |-> g, ok |-> TRUE]
    ELSE LET n == Head(ns)
             p == g.nodes[n]
         IN  IF ~IsPrimitive(p) THEN SwapLoop(g, Tail(ns))
             ELSE IF NumShapes(g, n) < ShapesNeeded(p.op) THEN [g |-> g, ok |-> FALSE]
             ELSE SwapLoop([g EXCEPT !.nodes[n] = CudaOp(p)], Tail(ns))

\* Stage D: swap the primitive ops.
StageD(g) == SwapLoop(g, SortAsc(NodeIds(g)))

(***************************************************************************)
(* CopyCompiler::compile: the candidate pairs are collected first, then    *)
(* each pair is skipped or fused.                                          *)
(***************************************************************************)
\* Variant: only a copy from the device followed by a copy to it is a pair.
IsCopyPair_OneWay(g, a, b) == IsCopyFrom(g, a) /\ IsCopyTo(g, b)

\* The filter on an edge's endpoints: a copy followed by the inverse copy.
IsCopyPair(g, a, b) ==
    \/ IsCopyTo(g, a) /\ IsCopyFrom(g, b)
    \/ IsCopyFrom(g, a) /\ IsCopyTo(g, b)

RECURSIVE UniqueBy(_, _, _)
\* Itertools::unique_by on component k: the first pair with each key is kept
UniqueBy(ps, k, seen) ==
    IF ps = <<>> THEN <<>>
    ELSE IF Head(ps)[k] \in seen THEN UniqueBy(Tail(ps), k, seen)
    ELSE <<Head(ps)>> \o UniqueBy(Tail(ps), k, seen \cup {Head(ps)[k]})

\* Variant: only the first pair is kept.
Candidates_FirstOnly(g) ==
    LET es    == SortAsc(EdgeIds(g))
        ends  == [i \in 1..Len(es) |-> <<g.edges[es[i]].src, g.edges[es[i]].dst>>]
        pairs == SelectSeq(ends, LAMBDA p : IsCopyPair(g, p[1], p[2]))
    IN  IF pairs = <<>> THEN <<>> ELSE <<Head(pairs)>>

\* The pairs (first, second) one sweep goes through, in edge-index order.
Candidates(g) ==
    LET es    == SortAsc(EdgeIds(g))
        ends  == [i \in 1..Len(es) |-> <<g.edges[es[i]].src, g.edges[es[i]].dst>>]
        pairs == SelectSeq(ends, LAMBDA p : IsCopyPair(g, p[1], p[2]))
    IN  UniqueBy(UniqueBy(pairs, 1, {}), 2, {})

\* The test that makes the sweep skip a pair: first feeds a node that is
\* no copy, or first is in no_delete.
Pinned(g, first) ==
    \/ \E e \in EdgeIds(g) :
          /\ g.edges[e].src = first
          /\ g.edges[e].dst \in NodeIds(g)
          /\ ~IsCopyFrom(g, g.edges[e].dst)
          /\ ~IsCopyTo(g, g.edges[e].dst)
    \/ first \in g.keep

RECURSIVE SortByInput(_, _)
\* sorted_by_key(input_order), a stable sort
SortByInput(g, es) ==
    IF es = <<>> THEN <<>>
    ELSE LET i == CHOOSE i \in 1..Len(es) : \A j \in 1..Len(es) :
                     \/ g.edges[es[i]].io < g.edges[es[j]].io
                     \/ g.edges[es[i]].io = g.edges[es[j]].io /\ i <= j
         IN  <<es[i]>> \o SortByInput(g, SubSeq(es, 1, i - 1) \o SubSeq(es, i + 1, Len(es)))

\* graph.get_sources(n): the sources of n's incoming edges by input order
GetSources(g, n) ==
    LET es == SortByInput(g, InEdges(g, n)) IN [i \in 1..Len(es) |-> g.edges[es[i]].src]

\* graph.get_dests(n): the targets of n's outgoing edges
GetDests(g, n) ==
    LET es == OutEdges(g, n) IN [i \in 1..Len(es) |-> g.edges[es[i]].dst]

\* move_outgoing_edge(from, to, graph)
MoveOutgoingEdge(g, from, to) == MoveEdgesTo(g, OutEdges(g, from), to)

\* Variant: the references of the deleted copy are not handed over.
FuseInto_NoReferences(g, node, source) ==
    RemoveNode(MoveOutgoingEdge(g, node, source), node)

\* Rewire a copy's consumers to source, hand its references over, delete it.
FuseInto(g, node, source) ==
    RemoveNode(MoveReferences(MoveOutgoingEdge(g, node, source), node, source), node)

RECURSIVE FuseDests(_, _, _)
FuseDests(g, ds, source) ==
    IF ds = <<>> THEN g ELSE FuseDests(FuseInto(g, Head(ds), source), Tail(ds), source)

\* Variant: a pinned first is fused like any other.
FusePair_NeverSkip(g, first, second) ==
    IF GetSources(g, first) = <<>> THEN [g |-> g, ok |-> FALSE]
    ELSE LET source == GetSources(g, first)[1]
             g1     == FuseInto(g, second, source)
             g2     == FuseDests(g1, GetDests(g1, first), source)
         IN  [g |-> RemoveNode(g2, first), ok |-> TRUE]

\* The body of the sweep's loop for one pair.
FusePair(g, first, second) ==
    IF Pinned(g, first) THEN [g |-> g, ok |-> TRUE]
    ELSE IF GetSources(g, first) = <<>> THEN [g |-> g, ok |-> FALSE]
    ELSE LET source == GetSources(g, first)[1]
             g1     == FuseInto(g, second, source)
             g2     == FuseDests(g1, GetDests(g1, first), source)
         IN  [g |-> RemoveNode(g2, first), ok |-> TRUE]

(***************************************************************************)
(* The graphs handed to the passes: built as the frontend builds them,     *)
(* node after node, each with edges from earlier nodes.                    *)
(***************************************************************************)
\* The shape on the edges out of node s.
ShapeOf(s) == <<s + 1>>

EmptyGraph ==
    [nodes |-> <<>>, edges |-> <<>>, free |-> <<>>, ret |-> {}, keep |-> {}, clock |-> 0]

RECURSIVE AddInputs(_, _, _, _)
AddInputs(g, n, srcs, i) ==
    IF i > Len(srcs) THEN g
    ELSE AddInputs(AddEdge(g, srcs[i], n, Data(i - 1, 0, ShapeOf(srcs[i]))), n, srcs, i + 1)

RECURSIVE Build(_, _)
\* graph.add_op(op).input(..).finish() for each node of a description
Build(g, ds) ==
    IF ds = <<>> THEN g
    ELSE LET g1 == AddNode(g, [op |-> Head(ds).op, arg |-> 0])
         IN  Build(AddInputs(g1, Len(g1.nodes), Head(ds).srcs, 1), Tail(ds))

\* What a node of an input graph can be: a function (a graph input, or a
\* host function of one tensor), a unary primitive or a print.
NodeChoices(N) ==
    {[op |-> "Function", srcs |-> <<>>]}
    \cup {[op |-> o, srcs |-> <<s>>] : o \in {"Function", "Log2", "Print"}, s \in 1..N}

Descriptions(N) ==
    {d \in [1..N -> NodeChoices(N)] :
        \A j \in 1..N : \A i \in 1..Len(d[j].srcs) :
            d[j].srcs[i] < j /\ d[d[j].srcs[i]].op # "Print"}

\* retrieve() puts a node into both sets, keep() into no_delete alone.
Marked(g) ==
    {[g EXCEPT !.keep = k, !.ret = r] :
        k \in {k \in SUBSET NodeIds(g) : Cardinality(k) <= MaxMarked},
        r \in SUBSET NodeIds(g)} 

InitGraphs ==
    UNION {UNION {{m \in Marked(Build(EmptyGraph, d)) : m.ret \subseteq m.keep} :
                    d \in Descriptions(N)} : N \in 1..MaxNodes}

(***************************************************************************)
(* The kernel loader.  A device is the table of the functions loaded into  *)
(* it: module name -> the source the module was compiled from.  A function *)
(* handle names the device, the module and the compiled source.            *)
(***************************************************************************)
\* Kernel sources the operator constructors generate (two templates).
Sources == {"out[i] = log2(inp[i]);", "out[i] = exp2(inp[i]);"}

HashValues == 1..NumHashes

\* CudaDevice::new(0): an object with nothing loaded
NewDevice == <<>>

\* format!("kernel_{}", hash(&code))
KernelName(h, code) == h[code]

\* Variant: the lookup of a loaded function never finds it.
HasFunc_Never(dev, name) == FALSE

\* device.has_func(&name, &name)
HasFunc(dev, name) == \E i \in 1..Len(dev) : dev[i].name = name

\* device.get_func(&name, &name).unwrap()
GetFunc(dev, d, name) ==
    LET i == CHOOSE i \in 1..Len(dev) : dev[i].name = name
    IN  [dev |-> d, name |-> name, code |-> dev[i].code]

\* Variant: loading a module drops the modules loaded before it.
LoadPtx_Replace(dev, name, code) == <<[name |-> name, code |-> code]>>

\* device.load_ptx(ptx, &name, &[name]): the module is registered under name
LoadPtx(dev, name, code) == Append(dev, [name |-> name, code |-> code])

\* compile_and_load_kernel(code, device) on device d: the devices it leaves,
\* whether it called the JIT compiler, and the function it returns
CompileAndLoadKernel(h, ds, code, d) ==
    LET name == KernelName(h, code)
        jit  == ~HasFunc(ds[d], name)
        ds1  == IF jit THEN [ds EXCEPT ![d] = LoadPtx(@, name, code)] ELSE ds
    IN  [devs |-> ds1, jit |-> jit, fn |-> GetFunc(ds1[d], d, name)]

KernelInit ==
    /\ hashOf \in [Sources -> HashValues]
    /\ devs = <<>>
    /\ compiles = 0
    /\ calls = <<>>

\* A run of CudaPrimitiveCompiler::compile begins: let dev = CudaDevice::new(0)
CreateDevice ==
    /\ Len(devs) < MaxDevices
    /\ devs' = Append(devs, NewDevice)
    /\ UNCHANGED <<hashOf, compiles, calls>>
    /\ UNCHANGED <<gvars, evars, bvars, cvars>>

\* An operator constructor calls compile_and_load_kernel with its source.
LoadKernel ==
    /\ Len(calls) < MaxCalls
    /\ \E code \in Sources, d \in 1..Len(devs) :
          LET r == CompileAndLoadKernel(hashOf, devs, code, d)
          IN  /\ devs' = r.devs
              /\ compiles' = IF r.jit THEN compiles + 1 ELSE compiles
              /\ calls' = Append(calls, [code |-> code, dev |-> d, jit |-> r.jit, fn |-> r.fn])
    /\ UNCHANGED hashOf
    /\ UNCHANGED <<gvars, evars, bvars, cvars>>

KernelNext == CreateDevice \/ LoadKernel

(***************************************************************************)
(* Expression lowering.  A symbolic expression is a sequence of terms in   *)
(* reverse Polish order; the lowered string is kept as its sequence of C   *)
(* tokens, and EvalC reads such a token sequence as the CUDA compiler      *)
(* does.                                                                   *)
(***************************************************************************)
Num(n) == [k |-> "Num", n |-> n, c |-> ""]

Var(c) == [k |-> "Var", n |-> 0, c |-> c]

Op(k) == [k |-> k, n |-> 0, c |-> ""]

Tok(t, n, s) == [t |-> t, n |-> n, s |-> s]

\* The Debug form of a term that is an operator: its infix symbol.
TermSymbol(term) ==
    CASE term.k = "Add" -> "+"
      [] term.k = "Sub" -> "-"
      [] term.k = "Mul" -> "*"
      [] term.k = "Div" -> "/"
      [] term.k = "Mod" -> "%"

\* Term::Num(n) => n.to_string(); Term::Var(c) => "(int)idx" for z, else c
RenderLeaf(term) ==
    IF term.k = "Num" THEN <<Tok("num", term.n, "")>>
    ELSE IF term.c = "z" THEN <<Tok("cast", 0, "(int)"), Tok("id", 0, "idx")>>
    ELSE <<Tok("id", 0, term.c)>>

\* format!("max((int){}, (int){})", first, second), and the same for min
RenderMaxMin(term, first, second) ==
    <<Tok("call", 0, IF term.k = "Max" THEN "max" ELSE "min"), Tok("(", 0, "("),
      Tok("cast", 0, "(int)")>> \o first
    \o <<Tok(",", 0, ","), Tok("cast", 0, "(int)")>> \o second \o <<Tok(")", 0, ")")>>

\* Variant: the operands are written in the other order.
RenderBinary_Swapped(term, first, second) ==
    <<Tok("(", 0, "(")>> \o second \o <<Tok("op", 0, TermSymbol(term))>>
    \o first \o <<Tok(")", 0, ")")>>

\* format!("({}{term:?}{})", first, second): first is the element popped
\* first, second the one popped after it
RenderBinary(term, first, second) ==
    <<Tok("(", 0, "(")>> \o first \o <<Tok("op", 0, TermSymbol(term))>>
    \o second \o <<Tok(")", 0, ")")>>

RECURSIVE RenderTerms(_, _)
\* The loop over the terms with the stack `symbols` (its top is its last
\* element); popping an empty stack aborts.
RenderTerms(terms, symbols) ==
    IF terms = <<>> THEN [ok |-> TRUE, symbols |-> symbols]
    ELSE LET term == Head(terms)
             n    == Len(symbols)
         IN  IF term.k \in {"Num", "Var"}
             THEN RenderTerms(Tail(terms), Append(symbols, RenderLeaf(term)))
             ELSE IF n < 2 THEN [ok |-> FALSE, symbols |-> symbols]
             ELSE RenderTerms(Tail(terms),
                     Append(SubSeq(symbols, 1, n - 2),
                            IF term.k \in {"Max", "Min"}
                            THEN RenderMaxMin(term, symbols[n], symbols[n - 1])
                            ELSE RenderBinary(term, symbols[n], symbols[n - 1])))

\* Variant: a string is returned only when the stack holds one element.
ExprToCudaString_ExactlyOne(terms) ==
    LET r == RenderTerms(terms, <<>>)
    IN  IF r.ok /\ Len(r.symbols) = 1
        THEN [ok |-> TRUE, str |-> r.symbols[1], depth |-> 1]
        ELSE [ok |-> FALSE, str |-> <<>>, depth |-> Len(r.symbols)]

\* expr_to_cuda_string: the top of the stack after the loop; ok is false
\* when a pop found the stack empty. depth is the stack's size at the end.
ExprToCudaString(terms) ==
    LET r == RenderTerms(terms, <<>>)
    IN  IF r.ok /\ r.symbols # <<>>
        THEN [ok |-> TRUE, str |-> r.symbols[Len(r.symbols)], depth |-> Len(r.symbols)]
        ELSE [ok |-> FALSE, str |-> <<>>, depth |-> Len(r.symbols)]

\* C's integer division and remainder: the quotient is truncated.
TruncDiv(a, b) ==
    LET q == (IF a < 0 THEN -a ELSE a) \div (IF b < 0 THEN -b ELSE b)
    IN  IF (a < 0) # (b < 0) THEN -q ELSE q

TruncRem(a, b) == a - b * TruncDiv(a, b)

\* The value of a binary operator on integers (None on a zero divisor).
Apply(sym, a, b) ==
    CASE sym = "+" -> [ok |-> TRUE, v |-> a + b]
      [] sym = "-" -> [ok |-> TRUE, v |-> a - b]
      [] sym = "*" -> [ok |-> TRUE, v |-> a * b]
      [] sym = "/" -> IF b = 0 THEN [ok |-> FALSE, v |-> 0] ELSE [ok |-> TRUE, v |-> TruncDiv(a, b)]
      [] sym = "%" -> IF b = 0 THEN [ok |-> FALSE, v |-> 0] ELSE [ok |-> TRUE, v |-> TruncRem(a, b)]
      [] sym = "max" -> [ok |-> TRUE, v |-> IF a >= b THEN a ELSE b]
      [] sym = "min" -> [ok |-> TRUE, v |-> IF a <= b THEN a ELSE b]

Bad(toks) == [ok |-> FALSE, v |-> 0, rest |-> toks]

RECURSIVE ParseC(_, _)
\* One operand of the lowered string, read off the front of toks: a
\* literal, an identifier, a cast operand, a parenthesised binary
\* operation or a call of max or min. vals gives the identifiers' values.
ParseC(toks, vals) ==
    IF toks = <<>> THEN Bad(toks)
    ELSE LET t == Head(toks)
         IN  CASE t.t = "num" -> [ok |-> TRUE, v |-> t.n, rest |-> Tail(toks)]
               [] t.t = "id" ->
                    IF t.s \in DOMAIN vals
                    THEN [ok |-> TRUE, v |-> vals[t.s], rest |-> Tail(toks)]
                    ELSE Bad(toks)
               [] t.t = "cast" -> ParseC(Tail(toks), vals)
               [] t.t = "(" ->
                    LET a == ParseC(Tail(toks), vals)
                    IN  IF ~a.ok \/ a.rest = <<>> \/ Head(a.rest).t # "op" THEN Bad(toks)
                        ELSE LET b == ParseC(Tail(a.rest), vals)
                             IN  IF ~b.ok \/ b.rest = <<>> \/ Head(b.rest).t # ")"
                                 THEN Bad(toks)
                                 ELSE LET r == Apply(Head(a.rest).s, a.v, b.v)
                                      IN  [ok |-> r.ok, v |-> r.v, rest |-> Tail(b.rest)]
               [] t.t = "call" ->
                    IF Len(toks) < 2 \/ toks[2].t # "(" THEN Bad(toks)
                    ELSE LET a == ParseC(Tail(Tail(toks)), vals)
                         IN  IF ~a.ok \/ a.rest = <<>> \/ Head(a.rest).t # "," THEN Bad(toks)
                             ELSE LET b == ParseC(Tail(a.rest), vals)
                                  IN  IF ~b.ok \/ b.rest = <<>> \/ Head(b.rest).t # ")"
                                      THEN Bad(toks)
                                      ELSE LET r == Apply(t.s, a.v, b.v)
                                           IN  [ok |-> r.ok, v |-> r.v, rest |-> Tail(b.rest)]
               [] OTHER -> Bad(toks)

\* The value of a lowered string inside a kernel whose variables have the
\* values vals; ok is false when it is no expression or divides by zero.
EvalC(toks, vals) ==
    LET r == ParseC(toks, vals)
    IN  IF r.ok /\ r.rest = <<>> THEN [ok |-> TRUE, v |-> r.v] ELSE [ok |-> FALSE, v |-> 0]

\* The infix symbol under which Apply knows a term.
TermOp(term) ==
    CASE term.k = "Max" -> "max" [] term.k = "Min" -> "min" [] OTHER -> TermSymbol(term)

RECURSIVE ExecStack(_, _, _)
\* The symbolic module's evaluation of an expression: a = pop, b = pop,
\* push op(a, b).
ExecStack(terms, vals, stack) ==
    IF terms = <<>>
    THEN IF stack = <<>> THEN [ok |-> FALSE, v |-> 0]
         ELSE [ok |-> TRUE, v |-> stack[Len(stack)]]
    ELSE LET term == Head(terms)
             n    == Len(stack)
         IN  IF term.k = "Num" THEN ExecStack(Tail(terms), vals, Append(stack, term.n))
             ELSE IF term.k = "Var"
             THEN IF term.c \in DOMAIN vals
                  THEN ExecStack(Tail(terms), vals, Append(stack, vals[term.c]))
                  ELSE [ok |-> FALSE, v |-> 0]
             ELSE IF n < 2 THEN [ok |-> FALSE, v |-> 0]
             ELSE LET r == Apply(TermOp(term), stack[n], stack[n - 1])
                  IN  IF ~r.ok THEN [ok |-> FALSE, v |-> 0]
                      ELSE ExecStack(Tail(terms), vals, Append(SubSeq(stack, 1, n - 2), r.v))

Exec(terms, vals) == ExecStack(terms, vals, <<>>)

\* The terms expressions are drawn from.
Operands == {Num(2), Var("z"), Var("s")}

Operators == {Op(k) : k \in {"Add", "Sub", "Mul", "Div", "Mod", "Max", "Min"}}

RECURSIVE Depth(_, _)
\* The stack's size after the terms, or -1 when a pop finds too few elements.
Depth(terms, d) ==
    IF terms = <<>> THEN d
    ELSE IF Head(terms).k \in {"Num", "Var"} THEN Depth(Tail(terms), d + 1)
    ELSE IF d < 2 THEN -1 ELSE Depth(Tail(terms), d - 1)

\* The well-formed expressions of at most MaxTerms terms.
WellFormed ==
    UNION {{e \in [1..n -> Operands \cup Operators] : Depth(e, 0) = 1} : n \in 1..MaxTerms}

ExprInit ==
    /\ expr \in WellFormed
    /\ env \in [{"z"} -> 0..MaxIndex] \X [{"s"} -> 1..MaxSymbol]
    /\ lowered = [ok |-> FALSE, str |-> <<>>, depth |-> 0]
    /\ epc = "new"

\* The sequences of at most n terms, well formed or not.
AnyTerms(n) == UNION {[1..k -> Operands \cup Operators] : k \in 0..n}

\* An expression that may have surplus operands or lack operands.
AnyExprInit ==
    /\ expr \in AnyTerms(MaxSurplus)
    /\ env = <<[x \in {"z"} |-> 1], [x \in {"s"} |-> 2]>>
    /\ lowered = [ok |-> FALSE, str |-> <<>>, depth |-> 0]
    /\ epc = "new"

\* The kernel's variables: idx holds the logical index z, a dynamic symbol
\* is a kernel parameter of its own name.
KernelVals(e) == [x \in {"idx", "s"} |-> IF x = "idx" THEN e[1]["z"] ELSE e[2]["s"]]

\* The symbolic module's variables.
SymbolVals(e) == [x \in {"z", "s"} |-> IF x = "z" THEN e[1]["z"] ELSE e[2]["s"]]

\* get_idx_valid_exps lowers an expression of a shape.
LowerExpr ==
    /\ epc = "new"
    /\ lowered' = ExprToCudaString(expr)
    /\ epc' = "lowered"
    /\ UNCHANGED <<expr, env>>
    /\ UNCHANGED <<gvars, kvars, bvars, cvars>>

ExprIdle ==
    /\ expr = <<>>
    /\ env = <<[x \in {"z"} |-> 0], [x \in {"s"} |-> 1]>>
    /\ lowered = [ok |-> FALSE, str |-> <<>>, depth |-> 0]
    /\ epc = "idle"

(***************************************************************************)
(* Tensors and the operators' process functions.  A float is kept as the   *)
(* number it stands for (the model's data are whole numbers) or as one of  *)
(* the special values; a tensor is a host vector of f32 or a device buffer *)
(* of the element type it was allocated with.                              *)
(***************************************************************************)
Fin(v) == [k |-> "fin", v |-> v]

\* -__int_as_float(0x7f800000): minus infinity
NegInf == [k |-> "-inf", v |-> 0]

\* fmod(x, 0)
NaN == [k |-> "nan", v |-> 0]

\* What a read past the end of a device buffer yields: not defined.
OutOfRange == [k |-> "undefined", v |-> 0]

ElementTypes == {"f32", "f16"}

\* The nearest 16-bit float of a whole number below 4096 in size: exact up
\* to 2048, a multiple of 2 above, a tie going to the even significand.
RoundHalf(v) ==
    LET m == IF v < 0 THEN -v ELSE v
        r == IF m <= 2048 \/ m % 2 = 0 THEN m
             ELSE IF ((m - 1) \div 2) % 2 = 0 THEN m - 1 ELSE m + 1
    IN  IF v < 0 THEN -r ELSE r

\* CudaFloat::from_f32 for f32 (the value itself) and f16 (f16::from_f32)
FromF32(T, x) == IF T = "f32" \/ x.k # "fin" THEN x ELSE Fin(RoundHalf(x.v))

\* CudaFloat::to_f32: every 16-bit float is a 32-bit float
ToF32(T, x) == x

HostTensor(data) == [side |-> "host", ty |-> "f32", data |-> data]

DeviceTensor(T, data) == [side |-> "dev", ty |-> T, data |-> data]

\* What a call of process reports: the tensor returned, whether the call
\* ran to its end, and the transfers and allocations it made.
Outcome(ok, out, htod, dtoh, devAlloc, hostAlloc) ==
    [ok |-> ok, out |-> out, htod |-> htod, dtoh |-> dtoh,
     devAlloc |-> devAlloc, hostAlloc |-> hostAlloc, launches |-> 0]

\* Variant: the test for an input that is on the device already is missing.
CudaCopyToDeviceProcess_NoCheck(T, inp, owned) ==
    IF inp.side # "host" THEN Outcome(FALSE, inp, 0, 0, 0, 0)
    ELSE Outcome(TRUE,
                 DeviceTensor(T, [i \in 1..Len(inp.data) |-> FromF32(T, inp.data[i])]),
                 1, 0, 1, 1)

\* Variant: the host values are copied without CudaFloat::from_f32.
CudaCopyToDeviceProcess_NoConvert(T, inp, owned) ==
    IF inp.side = "dev" /\ inp.ty = T
    THEN Outcome(TRUE, inp, 0, 0, IF owned THEN 0 ELSE 1, 0)
    ELSE IF inp.side # "host" THEN Outcome(FALSE, inp, 0, 0, 0, 0)
    ELSE Outcome(TRUE, DeviceTensor(T, inp.data), 1, 0, 1, 1)

\* CudaCopyToDevice<T>::process. A CudaData<T> is returned as it is (cloned
\* on the device when it is borrowed); anything else must be a Vec<f32>, or
\* the unwrap of the downcast aborts.
CudaCopyToDeviceProcess(T, inp, owned) ==
    IF inp.side = "dev" /\ inp.ty = T
    THEN Outcome(TRUE, inp, 0, 0, IF owned THEN 0 ELSE 1, 0)
    ELSE IF inp.side # "host" THEN Outcome(FALSE, inp, 0, 0, 0, 0)
    ELSE Outcome(TRUE,
                 DeviceTensor(T, [i \in 1..Len(inp.data) |-> FromF32(T, inp.data[i])]),
                 1, 0, 1, 1)

\* CudaCopyFromDevice<T>::process. A Vec<f32> is returned as it is (cloned
\* on the host when it is borrowed); anything else must be a CudaData<T>.
CudaCopyFromDeviceProcess(T, inp, owned) ==
    IF inp.side = "host"
    THEN Outcome(TRUE, inp, 0, 0, 0, IF owned THEN 0 ELSE 1)
    ELSE IF inp.ty # T THEN Outcome(FALSE, inp, 0, 0, 0, 0)
    ELSE Outcome(TRUE,
                 HostTensor([i \in 1..Len(inp.data) |-> ToF32(T, inp.data[i])]),
                 0, 1, 0, 1)

\* The values host vectors are made of: 2049 and 2051 are no 16-bit floats.
HostValues == {Fin(1), Fin(2049), Fin(2051)}

HostVectors == UNION {[1..n -> HostValues] : n \in 0..MaxLen}

BoundaryInit ==
    /\ elt \in ElementTypes
    /\ orig \in HostVectors
    /\ tensor = HostTensor(orig)
    /\ trail = <<>>

\* The call of a boundary operator's process on the current tensor.
Call(op, owned, r) ==
    [op |-> op, owned |-> owned, inp |-> tensor, out |-> r.out, ok |-> r.ok,
     htod |-> r.htod, dtoh |-> r.dtoh, devAlloc |-> r.devAlloc, hostAlloc |-> r.hostAlloc,
     launches |-> r.launches]

Running == \A i \in 1..Len(trail) : trail[i].ok

\* The runtime calls CudaCopyToDevice::process with the tensor, owned or borrowed.
CopyToDevice ==
    /\ Len(trail) < MaxOps
    /\ Running
    /\ \E owned \in BOOLEAN :
          LET r == CudaCopyToDeviceProcess(elt, tensor, owned)
          IN  /\ tensor' = r.out
              /\ trail' = Append(trail, Call("to", owned, r))
    /\ UNCHANGED <<elt, orig>>
    /\ UNCHANGED <<gvars, kvars, evars, cvars>>

\* The runtime calls CudaCopyFromDevice::process with the tensor.
CopyFromDevice ==
    /\ Len(trail) < MaxOps
    /\ Running
    /\ \E owned \in BOOLEAN :
          LET r == CudaCopyFromDeviceProcess(elt, tensor, owned)
          IN  /\ tensor' = r.out
              /\ trail' = Append(trail, Call("from", owned, r))
    /\ UNCHANGED <<elt, orig>>
    /\ UNCHANGED <<gvars, kvars, evars, cvars>>

BoundaryNext == CopyToDevice \/ CopyFromDevice

BoundaryIdle ==
    /\ elt = "f32"
    /\ orig = <<>>
    /\ tensor = HostTensor(<<>>)
    /\ trail = <<>>

(***************************************************************************)
(* The compute operators.  A shape tracker is kept as its logical          *)
(* dimensions, its index and valid expressions and the size of the buffer  *)
(* it views.                                                               *)
(***************************************************************************)
\* ShapeTracker::shape: the logical dimensions
Shape(st) == st.dims

\* ShapeTracker::n_elements: the number of logical elements
NElements(st) == Product(Shape(st))

\* ShapeTracker::remove_dim(axis), axes counted from 0
RemoveDim(st, axis) ==
    [st EXCEPT !.dims = SubSeq(@, 1, axis) \o SubSeq(@, axis + 2, Len(@))]

\* The dimensions of a shape without dynamic dimensions, as expressions.
Nums(dims) == [i \in 1..Len(dims) |-> <<Num(dims[i])>>]

\* The padding (or the slices) of a shape whose dimension at position k is
\* padded (or sliced) by (lo, hi) and the others not at all.
Pairs(dims, k, lo, hi) ==
    [i \in 1..Len(dims) |-> IF i = k THEN <<lo, hi>> ELSE <<<<Num(0)>>, <<Num(0)>>>>]

\* A buffer viewed in row-major order, every position valid.
Contiguous(dims) ==
    [dims |-> dims, index |-> <<Var("z")>>, valid |-> <<Num(1)>>, phys |-> Product(dims),
     sdims |-> Nums(dims), padding |-> Pairs(dims, 0, <<>>, <<>>),
     slices |-> Pairs(dims, 0, <<>>, <<>>)]

\* A buffer of the trailing dimensions, expanded along the first one:
\* index z % m, every position valid.
Expanded(dims) ==
    LET m == Product(Tail(dims))
    IN  [dims |-> dims, index |-> <<Num(m), Var("z"), Op("Mod")>>,
         valid |-> <<Num(1)>>, phys |-> m,
         sdims |-> Nums(dims), padding |-> Pairs(dims, 0, <<>>, <<>>),
         slices |-> Pairs(dims, 0, <<>>, <<>>)]

\* A buffer padded by one position at the end of the last dimension, of
\* size l with the pad: index (z / l) * (l - 1) + z % l, valid (l - 1) - z % l.
Padded(dims) ==
    LET l == dims[Len(dims)]
    IN  [dims  |-> dims,
         index |-> <<Num(l), Var("z"), Op("Mod"),
                     Num(l - 1), Num(l), Var("z"), Op("Div"), Op("Mul"), Op("Add")>>,
         valid |-> <<Num(l), Var("z"), Op("Mod"), Num(l - 1), Op("Sub")>>,
         phys  |-> (Product(dims) \div l) * (l - 1),
         sdims |-> Nums(dims), padding |-> Pairs(dims, Len(dims), <<Num(0)>>, <<Num(1)>>),
         slices |-> Pairs(dims, 0, <<>>, <<>>)]

\* A row-major buffer whose last dimension is the dynamic dimension s (of
\* size dims[Len(dims)] now): index z, every position valid.
DynContiguous(dims) ==
    [Contiguous(dims) EXCEPT !.sdims = [Nums(dims) EXCEPT ![Len(dims)] = <<Var("s")>>]]

\* A buffer of the dynamic dimension's s elements, expanded along a first
\* dimension of size n: index z % s, every position valid.
DynExpanded(n, s) ==
    [dims |-> <<n, s>>, index |-> <<Var("s"), Var("z"), Op("Mod")>>,
     valid |-> <<Num(1)>>, phys |-> s,
     sdims |-> <<<<Num(n)>>, <<Var("s")>>>>, padding |-> Pairs(<<n, s>>, 0, <<>>, <<>>),
     slices |-> Pairs(<<n, s>>, 0, <<>>, <<>>)]

\* A buffer of the dynamic dimension's s elements, padded at its end by the
\* dynamic amount p: with l = s + p, index z % l + s * (z / l), valid
\* s - min(z % l, s).
DynPadded(s, p) ==
    LET l  == <<Var("p"), Var("s"), Op("Add")>>
        zl == l \o <<Var("z"), Op("Mod")>>
    IN  [dims  |-> <<s + p>>,
         index |-> zl \o <<Var("s")>> \o l \o <<Var("z"), Op("Div"), Op("Mul"), Op("Add")>>,
         valid |-> <<Var("s")>> \o zl \o <<Op("Min"), Var("s"), Op("Sub")>>,
         phys  |-> s,
         sdims |-> <<<<Var("s"), Var("p"), Op("Add")>>>>,
         padding |-> <<<<<<Num(0)>>, <<Var("p")>>>>>>,
         slices |-> Pairs(<<s + p>>, 0, <<>>, <<>>)]

\* Expression::to_symbols: the variables of an expression, in term order
ToSymbols(e) ==
    LET vs == SelectSeq(e, LAMBDA t : t.k = "Var") IN [i \in 1..Len(vs) |-> vs[i].c]

RECURSIVE Flatten(_)
\* flat_map: the sequences of a sequence, one after the other
Flatten(ss) == IF ss = <<>> THEN <<>> ELSE Head(ss) \o Flatten(Tail(ss))

RECURSIVE Unique(_, _)
\* Itertools::unique: the first occurrence of each element is kept
Unique(cs, seen) ==
    IF cs = <<>> THEN <<>>
    ELSE IF Head(cs) \in seen THEN Unique(Tail(cs), seen)
    ELSE <<Head(cs)>> \o Unique(Tail(cs), seen \cup {Head(cs)})

\* What render_dyn_dim_inputs scans of one shape: its dimensions, then its
\* padding pairs, then its slice pairs.
ShapeDims(st) ==
    st.sdims \o Flatten(st.padding) \o Flatten(st.slices)

\* Variant: only the first shape is scanned.
RenderDynDimInputs_FirstShape(shapes) ==
    Unique(Flatten([j \in 1..Len(ShapeDims(shapes[1])) |-> ToSymbols(ShapeDims(shapes[1])[j])]), {})

\* render_dyn_dim_inputs: the symbols, which are also the kernel's extra
\* parameters ", const int c" in this order
RenderDynDimInputs(shapes) ==
    Unique(Flatten([i \in 1..Len(shapes) |->
                       Flatten([j \in 1..Len(ShapeDims(shapes[i])) |->
                                   ToSymbols(ShapeDims(shapes[i])[j])])]), {})

\* input_dyn_dims: dyn_map[d] is pushed for each of the operator's symbols
InputDynDims(dyn_symbols, dyn_map) ==
    [c \in {dyn_symbols[i] : i \in 1..Len(dyn_symbols)} |-> dyn_map[c]]

\* get_idx_valid_exps
GetIdxValidExps(st) ==
    [idx |-> ExprToCudaString(st.index).str, valid |-> ExprToCudaString(st.valid).str]

\* The kernel's variables in thread or loop turn idx: idx itself and the
\* parameters the launch supplied for the dynamic symbols.
KernelIdx(dyn, idx) == [x \in {"idx"} \cup DOMAIN dyn |-> IF x = "idx" THEN idx ELSE dyn[x]]

\* inp[i] in a kernel, i counted from 0
Read(buf, i) == IF i \in 0..(Len(buf.data) - 1) THEN buf.data[i + 1] ELSE OutOfRange

\* The arithmetic of the kernels on two floats; the result is rounded to
\* the element type.
Arith(T, kind, x, y) ==
    IF x.k # "fin" THEN x
    ELSE IF y.k # "fin" THEN y
    ELSE CASE kind = "Add" -> FromF32(T, Fin(x.v + y.v))
           [] kind = "Mul" -> FromF32(T, Fin(x.v * y.v))
           [] kind = "Mod" -> IF y.v = 0 THEN NaN ELSE FromF32(T, Fin(TruncRem(x.v, y.v)))
           [] kind = "LessThan" -> IF x.v < y.v THEN Fin(1) ELSE Fin(0)

\* CudaAdd::new, CudaMul::new, CudaMod::new, CudaLessThan::new: the kernel
\* is made of the two shapes' lowered expressions
CudaBinaryNew(kind, a_shape, b_shape) ==
    [kind |-> kind, dim |-> 0, a |-> GetIdxValidExps(a_shape), b |-> GetIdxValidExps(b_shape),
     dyn_symbols |-> RenderDynDimInputs(<<a_shape, b_shape>>)]

\* (valid) == 0 ? (T)0.0 : inp[idx]
Operand(exps, inp, dyn, idx) ==
    IF EvalC(exps.valid, KernelIdx(dyn, idx)).v = 0 THEN Fin(0)
    ELSE Read(inp, EvalC(exps.idx, KernelIdx(dyn, idx)).v)

\* Variant: the second operand is guarded by the first operand's valid expression.
BinaryThread_SharedValid(T, op, inp_a, inp_b, dyn, idx) ==
    Arith(T, op.kind, Operand(op.a, inp_a, dyn, idx),
          Operand([idx |-> op.b.idx, valid |-> op.a.valid], inp_b, dyn, idx))

\* The kernel's thread idx < numel: the value it writes to out[idx].
BinaryThread(T, op, inp_a, inp_b, dyn, idx) ==
    Arith(T, op.kind, Operand(op.a, inp_a, dyn, idx), Operand(op.b, inp_b, dyn, idx))

\* process of a binary operator: numel is the first input's n_elements
CudaBinaryProcess(T, op, tensors, dyn_map) ==
    LET inp_size == NElements(tensors[1].shape)
        dyn      == InputDynDims(op.dyn_symbols, dyn_map)
    IN  [front |-> 0, back |-> 0, dimSize |-> 0, numel |-> inp_size, launches |-> 1, htod |-> 0,
         out |-> DeviceTensor(T, [i \in 1..inp_size |->
                     BinaryThread(T, op, tensors[1].buf, tensors[2].buf, dyn, i - 1)])]

\* The value of a function that is not computed here.
App(kind, x) == [k |-> "app", v |-> 0, f |-> kind, x |-> x]

\* log2(x), exp2(x), sin(x), sqrt(x), 1.0 / x of the unary kernels, where the
\* result is a whole number or no number.
Unary(kind, x) ==
    IF x.k = "nan" THEN NaN
    ELSE IF x.k # "fin" THEN App(kind, x)
    ELSE CASE kind = "Log2" ->
                IF x.v < 0 THEN NaN
                ELSE IF x.v = 0 THEN NegInf
                ELSE IF \E n \in 0..10 : 2 ^ n = x.v
                THEN Fin(CHOOSE n \in 0..10 : 2 ^ n = x.v)
                ELSE App(kind, x)
           [] kind = "Exp2" -> IF x.v \in 0..10 THEN Fin(2 ^ x.v) ELSE App(kind, x)
           [] kind = "Sin" -> IF x.v = 0 THEN Fin(0) ELSE App(kind, x)
           [] kind = "Sqrt" ->
                IF x.v < 0 THEN NaN
                ELSE IF \E n \in 0..x.v : n * n = x.v
                THEN Fin(CHOOSE n \in 0..x.v : n * n = x.v)
                ELSE App(kind, x)
           [] kind = "Recip" -> IF x.v \in {1, -1} THEN x ELSE App(kind, x)

\* CudaLog2::new and the other unary operators: the kernel has no shape
CudaUnaryNew(kind) ==
    [kind |-> kind, dim |-> 0, a |-> <<>>, b |-> <<>>, dyn_symbols |-> <<>>]

\* Variant: the buffer is allocated and no kernel is launched.
CudaUnaryProcess_NoLaunch(T, op, tensors) ==
    LET inp_size == tensors[1].shape.phys
    IN  [front |-> 0, back |-> 0, dimSize |-> 0, numel |-> inp_size, launches |-> 0, htod |-> 0,
         out |-> DeviceTensor(T, [i \in 1..inp_size |-> Fin(0)])]

\* process of a unary operator: one thread for each of the input's
\* n_physical_elements, out[i] = f(inp[i])
CudaUnaryProcess(T, op, tensors) ==
    LET inp_size == tensors[1].shape.phys
    IN  [front |-> 0, back |-> 0, dimSize |-> 0, numel |-> inp_size, launches |-> 1, htod |-> 0,
         out |-> DeviceTensor(T, [i \in 1..inp_size |-> Unary(op.kind, Read(tensors[1].buf, i - 1))])]

\* ConstantValue::Float and ConstantValue::Expression
Float(f) == [k |-> "Float", f |-> f, e |-> <<>>]

Expression(e) == [k |-> "Expression", f |-> Fin(0), e |-> e]

\* CudaConstant::new keeps the value and the pointer to the graph's dyn_map
CudaConstantNew(value) ==
    [kind |-> "Constant", dim |-> 0, a |-> <<>>, b |-> <<>>, dyn_symbols |-> <<>>, value |-> value]

\* CudaConstant::process: alloc(1), the value converted to T, and
\* htod_copy_into; there is no kernel
CudaConstantProcess(T, op, dyn_map) ==
    LET value == IF op.value.k = "Float" THEN op.value.f
                 ELSE Fin(Exec(op.value.e, dyn_map).v)
    IN  [front |-> 0, back |-> 0, dimSize |-> 0, numel |-> 1, launches |-> 0, htod |-> 1,
         out |-> DeviceTensor(T, <<FromF32(T, value)>>)]

\* CudaContiguous::new: the kernel is made of the shape's lowered expressions
CudaContiguousNew(shape) ==
    [kind |-> "Contiguous", dim |-> 0, a |-> GetIdxValidExps(shape), b |-> GetIdxValidExps(shape),
     dyn_symbols |-> RenderDynDimInputs(<<shape>>)]

\* Variant: the guard on the valid expression is written the other way round.
ContiguousThread_InvertedGuard(op, inp_a, dyn, idx) ==
    IF EvalC(op.a.valid, KernelIdx(dyn, idx)).v = 0
    THEN Read(inp_a, EvalC(op.a.idx, KernelIdx(dyn, idx)).v)
    ELSE Fin(0)

\* The kernel's thread idx < numel: out[idx] = inp_a[{idx}] where the valid
\* expression is not 0; elsewhere out keeps the zero of alloc_zeros.
ContiguousThread(op, inp_a, dyn, idx) ==
    IF EvalC(op.a.valid, KernelIdx(dyn, idx)).v # 0
    THEN Read(inp_a, EvalC(op.a.idx, KernelIdx(dyn, idx)).v)
    ELSE Fin(0)

\* CudaContiguous::process: numel is n_elements of the shape made contiguous
CudaContiguousProcess(T, op, tensors, dyn_map) ==
    LET inp_size == NElements(tensors[1].shape)
        dyn      == InputDynDims(op.dyn_symbols, dyn_map)
    IN  [front |-> 0, back |-> 0, dimSize |-> 0, numel |-> inp_size, launches |-> 1, htod |-> 0,
         out |-> DeviceTensor(T, [i \in 1..inp_size |->
                     ContiguousThread(op, tensors[1].buf, dyn, i - 1)])]

\* CudaSumReduce::new, CudaMaxReduce::new
CudaReduceNew(kind, dim, shape) ==
    [kind |-> kind, dim |-> dim, a |-> GetIdxValidExps(shape), b |-> GetIdxValidExps(shape),
     dyn_symbols |-> RenderDynDimInputs(<<shape>>)]

\* float reduce_value = 0.0, or minus infinity for the maximum
ReduceStart(kind) == IF kind = "SumReduce" THEN Fin(0) ELSE NegInf

\* reduce_value + (float)x, or max(reduce_value, (float)x)
ReduceStep(kind, acc, x) ==
    IF x.k # "fin" THEN x
    ELSE IF acc.k # "fin" THEN (IF acc = NegInf THEN x ELSE acc)
    ELSE IF kind = "SumReduce" THEN Fin(acc.v + x.v)
    ELSE IF acc.v >= x.v THEN acc ELSE x

\* Variant: the step along the reduced dimension forgets its stride.
ReduceIndex_UnitStride(a, b, c, dim_size, back_size) == a * dim_size * back_size + c + b

\* int idx = a_ * dim_size * back_size + c_ * back_size + b_
ReduceIndex(a, b, c, dim_size, back_size) == a * dim_size * back_size + c * back_size + b

RECURSIVE ReduceLoop(_, _, _, _, _, _, _, _, _)
\* for (int c_ = 0; c_ < dim_size; c_++) in thread i_ = a * back_size + b
ReduceLoop(op, inp, dyn, dim_size, back_size, a, b, c, acc) ==
    IF c >= dim_size THEN acc
    ELSE LET idx == ReduceIndex(a, b, c, dim_size, back_size)
         IN  ReduceLoop(op, inp, dyn, dim_size, back_size, a, b, c + 1,
                 IF EvalC(op.a.valid, KernelIdx(dyn, idx)).v # 0
                 THEN ReduceStep(op.kind, acc, Read(inp, EvalC(op.a.idx, KernelIdx(dyn, idx)).v))
                 ELSE acc)

\* The kernel's thread i_ < numel: the value it writes to out[i_].
ReduceThread(T, op, inp, dyn, dim_size, back_size, i) ==
    FromF32(T, ReduceLoop(op, inp, dyn, dim_size, back_size,
                          i \div back_size, i % back_size, 0, ReduceStart(op.kind)))

\* shape().iter().take(dim).product()
FrontSize(dims, dim) == Product(SubSeq(dims, 1, dim))

\* Variant: the trailing dimensions are taken from dim on, not from dim + 1.
BackSize_SkipDim(dims, dim) == Product(SubSeq(dims, dim + 1, Len(dims)))

\* shape().iter().skip(dim + 1).product()
BackSize(dims, dim) == Product(SubSeq(dims, dim + 2, Len(dims)))

\* process of a reduction: the launch parameters and the output buffer
CudaReduceProcess(T, op, tensors, dyn_map) ==
    LET st         == tensors[1].shape
        dyn        == InputDynDims(op.dyn_symbols, dyn_map)
        inp_size   == NElements(RemoveDim(st, op.dim))
        front_size == FrontSize(Shape(st), op.dim)
        back_size  == BackSize(Shape(st), op.dim)
        dim_size   == Shape(st)[op.dim + 1]
    IN  [front |-> front_size, back |-> back_size, dimSize |-> dim_size, numel |-> inp_size,
         launches |-> 1, htod |-> 0,
         out |-> DeviceTensor(T, [i \in 1..inp_size |->
                     ReduceThread(T, op, tensors[1].buf, dyn, dim_size, back_size, i - 1)])]

\* The shapes the operators are handed.
Dimensions == UNION {[1..r -> 1..MaxDimSize] : r \in 1..MaxRank}

Trackers == UNION {{Contiguous(d), Expanded(d), Padded(d)} : d \in Dimensions}

\* The data of a buffer of n elements: 1, 2, 3, ..., the same with 2 and 5
\* exchanged, and -1, -2, -3, ...
Buffers(n) ==
    {[i \in 1..n |-> Fin(i)],
     [i \in 1..n |-> Fin(IF i = 2 THEN 5 ELSE IF i = 5 THEN 2 ELSE i)],
     [i \in 1..n |-> Fin(-i)]}

Input(T, st, data) == [buf |-> DeviceTensor(T, data), shape |-> st]

NoOperator == [kind |-> "none", dim |-> 0, a |-> <<>>, b |-> <<>>, dyn_symbols |-> <<>>]

NoResult ==
    [front |-> 0, back |-> 0, dimSize |-> 0, numel |-> 0, launches |-> 0, htod |-> 0,
     out |-> HostTensor(<<>>)]

\* One input for a reduction, or two inputs of the same logical shape for a
\* binary operator (the second one's data count its positions).
ComputeInit ==
    /\ elt \in ElementTypes
    /\ orig = <<>>
    /\ tensor = HostTensor(<<>>)
    /\ trail = <<>>
    /\ \E a \in Trackers :
          \/ \E d \in Buffers(a.phys) : inputs = <<Input(elt, a, d)>>
          \/ \E b \in {t \in Trackers : t.dims = a.dims}, d \in Buffers(a.phys) :
                inputs = <<Input(elt, a, d), Input(elt, b, [i \in 1..b.phys |-> Fin(i)])>>
    /\ opr = NoOperator
    /\ result = NoResult
    /\ opc = "new"

\* The graph's dyn_map: the current value of each dynamic symbol.
DynMaps == [{"s", "p"} -> 1..MaxSymbol]

\* The shapes with dynamic dimensions or padding under the dyn_map m, and
\* the shapes without any that have the same dimensions.
DynTrackers(m) ==
    {DynContiguous(<<m.s>>), DynPadded(m.s, m.p), Contiguous(<<m.s + m.p>>)}
    \cup UNION {{DynContiguous(<<n, m.s>>), DynExpanded(n, m.s), Contiguous(<<n, m.s>>)} :
                 n \in 1..MaxDimSize}

\* As ComputeInit, for a graph with dynamic dimensions.
DynInit ==
    /\ elt = "f32"
    /\ orig = <<>>
    /\ tensor = HostTensor(<<>>)
    /\ trail = <<>>
    /\ expr = <<>>
    /\ lowered = [ok |-> FALSE, str |-> <<>>, depth |-> 0]
    /\ epc = "idle"
    /\ \E m \in DynMaps :
          /\ env = <<[x \in {"z"} |-> 0], m>>
          /\ \E a \in DynTrackers(m) :
                \/ \E d \in Buffers(a.phys) : inputs = <<Input(elt, a, d)>>
                \/ \E b \in {t \in DynTrackers(m) : t.dims = a.dims} :
                      inputs = <<Input(elt, a, [i \in 1..a.phys |-> Fin(i)]),
                                 Input(elt, b, [i \in 1..b.phys |-> Fin(i)])>>
    /\ opr = NoOperator
    /\ result = NoResult
    /\ opc = "new"

\* Stage D constructs a reduction for the node's input shape and dimension.
ReduceNew ==
    /\ opc = "new"
    /\ Len(inputs) = 1
    /\ \E kind \in {"SumReduce", "MaxReduce"}, dim \in 0..(Len(inputs[1].shape.dims) - 1) :
          opr' = CudaReduceNew(kind, dim, inputs[1].shape)
    /\ opc' = "built"
    /\ UNCHANGED <<inputs, result>>
    /\ UNCHANGED <<gvars, kvars, evars, bvars>>

\* Stage D constructs a binary operator for the node's two input shapes.
BinaryNew ==
    /\ opc = "new"
    /\ Len(inputs) = 2
    /\ \E kind \in BinaryKinds :
          opr' = CudaBinaryNew(kind, inputs[1].shape, inputs[2].shape)
    /\ opc' = "built"
    /\ UNCHANGED <<inputs, result>>
    /\ UNCHANGED <<gvars, kvars, evars, bvars>>

\* Stage D constructs a CudaContiguous for the node's input shape.
ContiguousNew ==
    /\ opc = "new"
    /\ Len(inputs) = 1
    /\ opr' = CudaContiguousNew(inputs[1].shape)
    /\ opc' = "built"
    /\ UNCHANGED <<inputs, result>>
    /\ UNCHANGED <<gvars, kvars, evars, bvars>>

\* Stage D constructs a unary operator; it needs no shape.
UnaryNew ==
    /\ opc = "new"
    /\ Len(inputs) = 1
    /\ \E kind \in UnaryKinds : opr' = CudaUnaryNew(kind)
    /\ opc' = "built"
    /\ UNCHANGED <<inputs, result>>
    /\ UNCHANGED <<gvars, kvars, evars, bvars>>

\* The constants of a graph: literals and expressions of the symbols that
\* the dyn_map has.
ConstantValues ==
    {Float(Fin(3)), Float(Fin(2049))}
    \cup {Expression(<<Var(c), Num(2), Op("Mul")>>) : c \in DOMAIN env[2]}

\* Stage D constructs a CudaConstant; process takes no inputs.
ConstantNew ==
    /\ opc = "new"
    /\ \E value \in ConstantValues : opr' = CudaConstantNew(value)
    /\ opc' = "built"
    /\ UNCHANGED <<inputs, result>>
    /\ UNCHANGED <<gvars, kvars, evars, bvars>>

\* The runtime calls the unary operator's process.
UnaryProcess ==
    /\ opc = "built"
    /\ opr.kind \in UnaryKinds
    /\ result' = CudaUnaryProcess(elt, opr, inputs)
    /\ opc' = "done"
    /\ UNCHANGED <<inputs, opr>>
    /\ UNCHANGED <<gvars, kvars, evars, bvars>>

\* Variant: the value is taken from the dyn_map of the first execution.
ConstantProcess_FirstMap ==
    /\ opc = "built"
    /\ opr.kind = "Constant"
    /\ result' = CudaConstantProcess(elt, opr, IF trail = <<>> THEN env[2] ELSE trail[1].dyn)
    /\ opc' = "done"
    /\ UNCHANGED <<inputs, opr>>
    /\ UNCHANGED <<gvars, kvars, evars, bvars>>

\* The runtime calls CudaConstant::process.
ConstantProcess ==
    /\ opc = "built"
    /\ opr.kind = "Constant"
    /\ result' = CudaConstantProcess(elt, opr, env[2])
    /\ opc' = "done"
    /\ UNCHANGED <<inputs, opr>>
    /\ UNCHANGED <<gvars, kvars, evars, bvars>>

\* The runtime calls CudaContiguous::process.
ContiguousProcess ==
    /\ opc = "built"
    /\ opr.kind = "Contiguous"
    /\ result' = CudaContiguousProcess(elt, opr, inputs, env[2])
    /\ opc' = "done"
    /\ UNCHANGED <<inputs, opr>>
    /\ UNCHANGED <<gvars, kvars, evars, bvars>>

\* The runtime calls the reduction's process.
ReduceProcess ==
    /\ opc = "built"
    /\ opr.kind \in {"SumReduce", "MaxReduce"}
    /\ result' = CudaReduceProcess(elt, opr, inputs, env[2])
    /\ opc' = "done"
    /\ UNCHANGED <<inputs, opr>>
    /\ UNCHANGED <<gvars, kvars, evars, bvars>>

\* The runtime calls the binary operator's process.
BinaryProcess ==
    /\ opc = "built"
    /\ opr.kind \in BinaryKinds
    /\ result' = CudaBinaryProcess(elt, opr, inputs, env[2])
    /\ opc' = "done"
    /\ UNCHANGED <<inputs, opr>>
    /\ UNCHANGED <<gvars, kvars, evars, bvars>>

ComputeNext ==
    \/ ReduceNew
    \/ BinaryNew
    \/ ContiguousNew
    \/ UnaryNew
    \/ ConstantNew
    \/ UnaryProcess
    \/ ConstantProcess
    \/ ReduceProcess
    \/ BinaryProcess
    \/ ContiguousProcess

ComputeIdle ==
    /\ inputs = <<>>
    /\ opr = NoOperator
    /\ result = NoResult
    /\ opc = "idle"

(***************************************************************************)
(* The passes as steps on the graph.                                       *)
(***************************************************************************)
\* What a node can be in a graph some of whose primitives lack inputs: a
\* Contiguous without an input and an Add with one input besides functions
\* and unary primitives.
MismatchChoices(N) ==
    {[op |-> "Function", srcs |-> <<>>], [op |-> "Contiguous", srcs |-> <<>>]}
    \cup {[op |-> o, srcs |-> <<s>>] : o \in {"Function", "Log2", "Add"}, s \in 1..N}

MismatchGraphs(M) ==
    UNION {UNION {{m \in Marked(Build(EmptyGraph, d)) : m.ret = m.keep} :
                    d \in {d \in [1..N -> MismatchChoices(N)] :
                              \A j \in 1..N : \A i \in 1..Len(d[j].srcs) : d[j].srcs[i] < j}} :
           N \in 1..M}

MismatchInit ==
    /\ graph \in MismatchGraphs(MaxNodes)
    /\ pc = "ready"
    /\ runs = 0
    /\ sweeps = 0
    /\ snap = graph
    /\ cands = <<>>

GraphInit ==
    /\ graph \in InitGraphs
    /\ pc = "ready"
    /\ runs = 0
    /\ sweeps = 0
    /\ snap = graph
    /\ cands = <<>>

\* CudaPrimitiveCompiler::compile begins: stage A
PrimStageA ==
    /\ pc \in {"ready", "lowered"}
    /\ runs < MaxRuns
    /\ snap' = graph
    /\ graph' = StageA(graph)
    /\ runs' = runs + 1
    /\ pc' = "stageB"
    /\ UNCHANGED <<sweeps, cands>>
    /\ UNCHANGED <<kvars, evars, bvars, cvars>>

PrimStageB ==
    /\ pc = "stageB"
    /\ \E ns \in Orders(RetrieveNodes(graph)) :
          LET r == StageB(graph, ns)
          IN  graph' = r.g /\ pc' = IF r.ok THEN "stageC" ELSE "panic"
    /\ UNCHANGED <<runs, sweeps, snap, cands>>
    /\ UNCHANGED <<kvars, evars, bvars, cvars>>

PrimStageC ==
    /\ pc = "stageC"
    /\ LET r == StageC(graph)
       IN  graph' = r.g /\ pc' = IF r.ok THEN "stageD" ELSE "panic"
    /\ UNCHANGED <<runs, sweeps, snap, cands>>
    /\ UNCHANGED <<kvars, evars, bvars, cvars>>

PrimStageD ==
    /\ pc = "stageD"
    /\ LET r == StageD(graph)
       IN  graph' = r.g /\ pc' = IF r.ok THEN "lowered" ELSE "panic"
    /\ UNCHANGED <<runs, sweeps, snap, cands>>
    /\ UNCHANGED <<kvars, evars, bvars, cvars>>

\* CopyCompiler::compile begins: the candidate pairs are collected
CopyCollect ==
    /\ pc \in {"lowered", "fused"}
    /\ sweeps < MaxSweeps
    /\ sweeps' = sweeps + 1
    /\ cands' = Candidates(graph)
    /\ pc' = IF Candidates(graph) = <<>> THEN "fused" ELSE "fusing"
    /\ snap' = graph
    /\ UNCHANGED <<graph, runs>>
    /\ UNCHANGED <<kvars, evars, bvars, cvars>>

\* One turn of the sweep's loop.
CopyStep ==
    /\ pc = "fusing"
    /\ LET r == FusePair(graph, Head(cands)[1], Head(cands)[2])
       IN  /\ graph' = r.g
           /\ pc' = IF ~r.ok THEN "panic" ELSE IF Tail(cands) = <<>> THEN "fused" ELSE "fusing"
    /\ cands' = Tail(cands)
    /\ UNCHANGED <<runs, sweeps, snap>>
    /\ UNCHANGED <<kvars, evars, bvars, cvars>>

Next ==
    \/ PrimStageA
    \/ PrimStageB
    \/ PrimStageC
    \/ PrimStageD
    \/ CopyCollect
    \/ CopyStep

\* The kernel loader at rest, for the specifications that do not use it.
KernelIdle ==
    /\ hashOf = [c \in Sources |-> 1]
    /\ devs = <<>>
    /\ compiles = 0
    /\ calls = <<>>

\* The passes at rest.
GraphIdle ==
    /\ graph = EmptyGraph
    /\ pc = "idle"
    /\ runs = 0
    /\ sweeps = 0
    /\ snap = EmptyGraph
    /\ cands = <<>>

\* The compiler passes on a graph.
Init == GraphInit /\ KernelIdle /\ ExprIdle /\ BoundaryIdle /\ ComputeIdle

Spec == Init /\ [][Next]_vars

\* The passes on graphs some of whose primitives lack inputs.
InitMismatch == MismatchInit /\ KernelIdle /\ ExprIdle /\ BoundaryIdle /\ ComputeIdle

SpecMismatch == InitMismatch /\ [][Next]_vars

\* The kernel loader over the life of a process.
InitKernel == KernelInit /\ GraphIdle /\ ExprIdle /\ BoundaryIdle /\ ComputeIdle

SpecKernel == InitKernel /\ [][KernelNext]_vars

\* The lowering of one expression.
InitExpr == ExprInit /\ GraphIdle /\ KernelIdle /\ BoundaryIdle /\ ComputeIdle

SpecExpr == InitExpr /\ [][LowerExpr]_vars

\* The lowering of a sequence of terms that need not be well formed.
InitAnyExpr == AnyExprInit /\ GraphIdle /\ KernelIdle /\ BoundaryIdle /\ ComputeIdle

SpecAnyExpr == InitAnyExpr /\ [][LowerExpr]_vars

\* A host vector handed through boundary operators.
InitBoundary == BoundaryInit /\ GraphIdle /\ KernelIdle /\ ExprIdle /\ ComputeIdle

SpecBoundary == InitBoundary /\ [][BoundaryNext]_vars

\* One compute operator, constructed and run.
InitCompute == ComputeInit /\ GraphIdle /\ KernelIdle /\ ExprIdle

SpecCompute == InitCompute /\ [][ComputeNext]_vars

\* Any operator, called by the runtime.
InitOps == InitBoundary \/ InitCompute

OpsNext == (opc = "idle" /\ BoundaryNext) \/ ComputeNext

SpecOps == InitOps /\ [][OpsNext]_vars

\* The operators on shapes with dynamic dimensions.
InitDyn == DynInit /\ GraphIdle /\ KernelIdle

SpecDyn == InitDyn /\ [][ComputeNext]_vars

(***************************************************************************)
(* Properties of the passes.                                               *)
(***************************************************************************)
\* The edges of a graph as the pass's caller sees them: endpoints and
\* payload, with the number of parallel copies of each.
EdgeView(g) ==
    {[src |-> g.edges[e].src, dst |-> g.edges[e].dst, w |-> Weight(g.edges[e]),
      n |-> Cardinality({f \in EdgeIds(g) :
                            /\ g.edges[f].src = g.edges[e].src
                            /\ g.edges[f].dst = g.edges[e].dst
                            /\ Weight(g.edges[f]) = Weight(g.edges[e])})] :
        e \in EdgeIds(g)}

\* Node set, payloads, edges, retrieval set and no-delete set all agree.
SameGraph(g, h) ==
    /\ g.nodes = h.nodes
    /\ EdgeView(g) = EdgeView(h)
    /\ g.ret = h.ret
    /\ g.keep = h.keep

\* A second run of the substitution pass has just ended.
SecondRunDone == pc = "lowered" /\ runs = 2 /\ sweeps = 0

\* C1 as stated: the substitution pass is idempotent, a second run on the
\* graph the first run produced changes nothing.
C1_Idempotent == SecondRunDone => SameGraph(graph, snap)

\* What makes stages A to C insert copy nodes: a function node with an
\* outgoing edge, a retrieved node that is no function, a print.
HasCopyWork(g) ==
    \/ \E n \in 1..Len(g.nodes) :
          /\ g.nodes[n].op = "Function"
          /\ \E e \in 1..Len(g.edges) : g.edges[e].src = n
    \/ \E n \in g.ret : g.nodes[n].op # "Function"
    \/ \E n \in 1..Len(g.nodes) : g.nodes[n].op = "Print"

\* C1 as amended: a second run of the substitution pass removes no node and
\* changes no payload of a node that was there (stage D matches abstract
\* primitives only), and it is a no-op exactly when the lowered graph has no
\* function with an outgoing edge, no retrieved non-function and no print.
C1_SecondRun ==
    SecondRunDone =>
        /\ Len(graph.nodes) >= Len(snap.nodes)
        /\ \A n \in 1..Len(snap.nodes) : graph.nodes[n] = snap.nodes[n]
        /\ SameGraph(graph, snap) <=> ~HasCopyWork(snap)

\* C1's case: a second run over a graph whose primitive was substituted by
\* the first run, and the second run added nodes.
C1_Witness ==
    /\ SecondRunDone
    /\ \E n \in 1..Len(snap.nodes) : snap.nodes[n].op = "CudaLog2"
    /\ Len(graph.nodes) > Len(snap.nodes)

\* The substitution pass ran once, then the copy-fusion pass ran once.
LoweredAndFused == pc = "fused" /\ runs = 1 /\ sweeps = 1

\* C2: after the substitution pass and the copy-fusion pass on a graph that
\* had no copy nodes, every edge from a copy to the inverse copy has a first
\* node that also feeds a node that is no copy, or that is in no_delete.
C2_NoInverseCopyPairs ==
    LoweredAndFused =>
        \A e \in 1..Len(graph.edges) :
            LET a == graph.edges[e].src
                b == graph.edges[e].dst
            IN  (/\ a # 0
                 /\ {graph.nodes[a].op, graph.nodes[b].op}
                        = {"CudaCopyToDevice", "CudaCopyFromDevice"})
                => \/ a \in graph.keep
                   \/ \E f \in 1..Len(graph.edges) :
                         /\ graph.edges[f].src = a
                         /\ graph.nodes[graph.edges[f].dst].op
                               \notin {"CudaCopyToDevice", "CudaCopyFromDevice"}

\* C2's case: the substitution pass put a copy to the device in front of a
\* copy from it, and the sweep removed both nodes.
C2_Witness ==
    /\ LoweredAndFused
    /\ \E a, b \in 1..Len(graph.nodes) :
          /\ a # b
          /\ graph.nodes[a] = NoNode
          /\ graph.nodes[b] = NoNode
    /\ \E n \in 1..Len(graph.nodes) : graph.nodes[n].op = "CudaCopyToDevice"

(***************************************************************************)
(* Properties of the kernel loader.                                        *)
(***************************************************************************)
\* C3: of two calls of compile_and_load_kernel with the same source text on
\* one device, the later one does not call the JIT compiler and loads no
\* module, both return the same function, and that function is registered
\* under the name made of the source's hash.
C3_SecondCallCached ==
    \A i, j \in 1..Len(calls) :
        (i < j /\ calls[i].code = calls[j].code /\ calls[i].dev = calls[j].dev)
        => /\ ~calls[j].jit
           /\ calls[j].fn = calls[i].fn
           /\ calls[j].fn.name = hashOf[calls[j].code]
           /\ Cardinality({k \in 1..Len(devs[calls[j].dev]) :
                              devs[calls[j].dev][k].name = hashOf[calls[j].code]}) = 1

\* C3's case: the same source was compiled on a device, then asked for again.
C3_Witness ==
    /\ Len(calls) >= 2
    /\ calls[1].code = calls[2].code
    /\ calls[1].dev = calls[2].dev
    /\ calls[1].jit
    /\ compiles = 1

\* C4 as stated: the cache is process-wide, so once a source text has been
\* compiled no later call with it compiles again, whichever run of a pass
\* (and so whichever device object) the call belongs to.
C4_ProcessWide ==
    \A i, j \in 1..Len(calls) :
        (i < j /\ calls[i].code = calls[j].code) => ~calls[j].jit

\* C4 as amended: the cache belongs to the device object and is keyed by the
\* kernel name. A call compiles exactly when no earlier call on the same
\* device object had the same name, so a later run of a pass, which makes a
\* device object of its own, compiles again; and the cache only grows: no
\* step removes or changes a function loaded on a device object.
C4_PerDeviceCache ==
    /\ [](\A j \in 1..Len(calls) :
            calls[j].jit <=>
                ~\E i \in 1..(j - 1) :
                    /\ calls[i].dev = calls[j].dev
                    /\ hashOf[calls[i].code] = hashOf[calls[j].code])
    /\ [][\A d \in 1..Len(devs) :
            /\ d <= Len(devs')
            /\ Len(devs[d]) <= Len(devs'[d])
            /\ \A k \in 1..Len(devs[d]) : devs'[d][k] = devs[d][k]]_vars

\* C4's case: a source compiled on one device object is compiled again on
\* the device object of a later run, and a third call on the first device
\* finds that device's entry.
C4_Witness ==
    /\ Len(calls) = 3
    /\ calls[1].code = calls[2].code
    /\ calls[1].dev # calls[2].dev
    /\ calls[1].jit /\ calls[2].jit
    /\ calls[3].dev = calls[1].dev
    /\ ~calls[3].jit

(***************************************************************************)
(* Properties of the boundary operators.                                   *)
(***************************************************************************)
\* C5: CudaCopyToDevice::process on a device buffer and
\* CudaCopyFromDevice::process on a host vector run to their end, return
\* the input's contents, and neither transfer nor allocate on the other
\* side; so a copy operator applied after itself returns what the first
\* application returned.
C5_BoundaryIdentity ==
    \A i \in 1..Len(trail) :
        LET c == trail[i]
        IN  /\ (c.op = "to" /\ c.inp.side = "dev")
                => c.ok /\ c.out = c.inp /\ c.htod = 0 /\ c.dtoh = 0 /\ c.hostAlloc = 0
            /\ (c.op = "from" /\ c.inp.side = "host")
                => c.ok /\ c.out = c.inp /\ c.htod = 0 /\ c.dtoh = 0 /\ c.devAlloc = 0
            /\ (i > 1 /\ trail[i - 1].op = c.op) => c.ok /\ c.out = trail[i - 1].out

\* C5's case: a copy from the device handed a host vector, then a copy to
\* the device, then a second copy to the device handed the borrowed buffer.
C5_Witness ==
    /\ Len(trail) = 3
    /\ orig # <<>>
    /\ trail[1].op = "from" /\ trail[1].out = HostTensor(orig)
    /\ trail[2].op = "to" /\ trail[2].htod = 1
    /\ trail[3].op = "to" /\ ~trail[3].owned /\ trail[3].htod = 0
    /\ tensor = trail[2].out

\* C6: a host vector copied to the device and back is a host vector of the
\* same length whose elements are the original ones converted to the
\* element type and back, the original ones themselves when that type is f32.
C6_RoundTrip ==
    (/\ Len(trail) >= 2
     /\ trail[1].op = "to"
     /\ trail[2].op = "from")
    => /\ trail[2].ok
       /\ trail[2].out.side = "host"
       /\ Len(trail[2].out.data) = Len(orig)
       /\ \A i \in 1..Len(orig) :
             trail[2].out.data[i] = ToF32(elt, FromF32(elt, orig[i]))
       /\ elt = "f32" => trail[2].out.data = orig
       /\ trail[2].htod = 0 /\ trail[2].dtoh = 1

\* C6's case: 2049 and 2051 through a 16-bit buffer come back as 2048 and 2052.
C6_Witness ==
    /\ Len(trail) = 2
    /\ elt = "f16"
    /\ orig = <<Fin(2049), Fin(2051)>>
    /\ trail[1].op = "to"
    /\ trail[2].op = "from"
    /\ tensor = HostTensor(<<Fin(2048), Fin(2052)>>)

At(terms, z) == Exec(terms, [x \in {"z"} |-> z]).v

\* The input value at logical index z of an input, 0 where z is padding.
Logical(inp, z) ==
    IF At(inp.shape.valid, z) = 0 THEN 0
    ELSE inp.buf.data[At(inp.shape.index, z) + 1].v

RECURSIVE SumOver(_, _)
SumOver(S, inp) ==
    IF S = {} THEN 0
    ELSE LET z == CHOOSE z \in S : TRUE
         IN  Logical(inp, z) + SumOver(S \ {z}, inp)

ReductionDone == opc = "done" /\ opr.kind \in {"SumReduce", "MaxReduce"}

\* C8: output element i of a reduction over dimension dim, with
\* a = i / back_size and b = i mod back_size, is the sum (starting from 0)
\* or the maximum (starting from minus infinity) of the input values at the
\* logical indices a*dim_size*back_size + c*back_size + b, c < dim_size,
\* whose valid expression is not 0, as a value of the element type; the
\* sum over dimension 1 of
\* [[1,2,3],[4,5,6]] is [6,15], the maximum over dimension 0 of
\* [[1,5,3],[4,2,6]] is [4,5,6].
C8_ReduceFold ==
    ReductionDone =>
        LET inp  == inputs[1]
            dims == inp.shape.dims
            size == dims[opr.dim + 1]
            back == Product(SubSeq(dims, opr.dim + 2, Len(dims)))
            out  == result.out.data
        IN  /\ Len(out) * size = Product(dims)
            /\ \A i \in 0..(Len(out) - 1) :
                  LET a == i \div back
                      b == i % back
                      V == {z \in {a * size * back + c * back + b : c \in 0..(size - 1)} :
                              At(inp.shape.valid, z) # 0}
                  IN  IF opr.kind = "SumReduce"
                      THEN out[i + 1] = FromF32(elt, Fin(SumOver(V, inp)))
                      ELSE IF V = {} THEN out[i + 1] = NegInf
                      ELSE /\ out[i + 1].k = "fin"
                           /\ \E z \in V : Logical(inp, z) = out[i + 1].v
                           /\ \A z \in V : Logical(inp, z) <= out[i + 1].v
            /\ (/\ inp.shape = Contiguous(<<2, 3>>)
                /\ inp.buf.data = <<Fin(1), Fin(2), Fin(3), Fin(4), Fin(5), Fin(6)>>
                /\ opr.kind = "SumReduce"
                /\ opr.dim = 1) => out = <<Fin(6), Fin(15)>>
            /\ (/\ inp.shape = Contiguous(<<2, 3>>)
                /\ inp.buf.data = <<Fin(1), Fin(5), Fin(3), Fin(4), Fin(2), Fin(6)>>
                /\ opr.kind = "MaxReduce"
                /\ opr.dim = 0) => out = <<Fin(4), Fin(5), Fin(6)>>

\* C8's case: the maximum over dimension 0 of [[1,5,3],[4,2,6]].
C8_Witness ==
    /\ ReductionDone
    /\ opr.kind = "MaxReduce"
    /\ opr.dim = 0
    /\ inputs[1].shape = Contiguous(<<2, 3>>)
    /\ inputs[1].buf.data = <<Fin(1), Fin(5), Fin(3), Fin(4), Fin(2), Fin(6)>>
    /\ result.out.data = <<Fin(4), Fin(5), Fin(6)>>

\* C9: the launch parameters of a reduction satisfy
\* front_size * dim_size * back_size = number of logical input elements, and
\* front_size * back_size = numel = number of allocated output elements.
C9_LaunchParameters ==
    ReductionDone =>
        /\ result.front * result.dimSize * result.back = Product(inputs[1].shape.dims)
        /\ result.front * result.back = result.numel
        /\ result.numel = Len(result.out.data)

\* C9's case: a reduction of a padded [3,2] input over
\* dimension 0: front_size 1, dim_size 3, back_size 2, two output elements.
C9_Witness ==
    /\ ReductionDone
    /\ opr.dim = 0
    /\ inputs[1].shape = Padded(<<3, 2>>)
    /\ result.front = 1 /\ result.dimSize = 3 /\ result.back = 2
    /\ Len(result.out.data) = 2

\* C10: output element idx of a binary operator is op(a', b'), a' being 0
\* where the first input's valid expression is 0 at idx and the first
\* buffer's element at its index expression otherwise, b' likewise with the
\* second input's own expressions, op being the sum, the product (both in
\* the element type's arithmetic) or fmod; LessThan gives 1 when a' < b',
\* else 0.
C10_BinaryElementwise ==
    (opc = "done" /\ opr.kind \in {"Add", "Mul", "Mod", "LessThan"}) =>
        /\ result.numel = Product(inputs[1].shape.dims)
        /\ Len(result.out.data) = result.numel
        /\ \A idx \in 0..(result.numel - 1) :
              LET a == Logical(inputs[1], idx)
                  b == Logical(inputs[2], idx)
              IN  result.out.data[idx + 1] =
                     CASE opr.kind = "Add" -> FromF32(elt, Fin(a + b))
                       [] opr.kind = "Mul" -> FromF32(elt, Fin(a * b))
                       [] opr.kind = "Mod" ->
                            IF b = 0 THEN NaN
                            ELSE IF a >= 0 THEN Fin(a % (IF b < 0 THEN -b ELSE b))
                            ELSE Fin(-((-a) % (IF b < 0 THEN -b ELSE b)))
                       [] opr.kind = "LessThan" -> IF a < b THEN Fin(1) ELSE Fin(0)

\* C10's case: -1, -2, -3 less than 1, 2 and a padded position.
C10_Witness ==
    /\ opc = "done"
    /\ opr.kind = "LessThan"
    /\ inputs[1].shape = Contiguous(<<3>>)
    /\ inputs[1].buf.data = <<Fin(-1), Fin(-2), Fin(-3)>>
    /\ inputs[2].shape = Padded(<<3>>)
    /\ result.out.data = <<Fin(1), Fin(1), Fin(1)>>

\* C11: CudaContiguous on an input whose shape is contiguous already (index
\* expression z, every position valid) returns a buffer of n_elements
\* entries whose element i is the input's element i.
C11_ContiguousIdentity ==
    (/\ opc = "done"
     /\ opr.kind = "Contiguous"
     /\ inputs[1].shape = Contiguous(inputs[1].shape.dims)) =>
        /\ result.numel = NElements(inputs[1].shape)
        /\ Len(result.out.data) = NElements(inputs[1].shape)
        /\ \A i \in 1..Len(result.out.data) : result.out.data[i] = inputs[1].buf.data[i]

\* C11's case: a contiguous [2,3] buffer 1, 5, 3, 4, 2, 6 made contiguous.
C11_Witness ==
    /\ opc = "done"
    /\ opr.kind = "Contiguous"
    /\ inputs[1].shape = Contiguous(<<2, 3>>)
    /\ result.out.data = <<Fin(1), Fin(5), Fin(3), Fin(4), Fin(2), Fin(6)>>

(***************************************************************************)
(* Dynamic symbols of a kernel.                                            *)
(***************************************************************************)

\* The identifiers of a lowered string other than the thread index.
Identifiers(toks) ==
    LET ids == SelectSeq(toks, LAMBDA t : t.t = "id" /\ t.s # "idx")
    IN  [i \in 1..Len(ids) |-> ids[i].s]

\* The symbols in the lowered index and valid expressions of the operator's
\* inputs, in order, each once.
LoweredSymbols ==
    Unique(Flatten([i \in 1..Len(inputs) |->
                       Identifiers(GetIdxValidExps(inputs[i].shape).idx)
                       \o Identifiers(GetIdxValidExps(inputs[i].shape).valid)]), {})

\* The symbols of the input shapes as they are met going through each
\* shape's dimensions, then its padding, then its slices.
Scanned ==
    Flatten([i \in 1..Len(inputs) |->
        Flatten([j \in 1..Len(inputs[i].shape.sdims) |-> ToSymbols(inputs[i].shape.sdims[j])])
        \o Flatten([j \in 1..Len(inputs[i].shape.padding) |->
               ToSymbols(inputs[i].shape.padding[j][1]) \o ToSymbols(inputs[i].shape.padding[j][2])])
        \o Flatten([j \in 1..Len(inputs[i].shape.slices) |->
               ToSymbols(inputs[i].shape.slices[j][1]) \o ToSymbols(inputs[i].shape.slices[j][2])])])

\* The first position of c in cs.
FirstAt(cs, c) == CHOOSE i \in 1..Len(cs) : cs[i] = c /\ \A j \in 1..(i - 1) : cs[j] # c

\* The lowered expressions of the operator's inputs evaluate in thread idx,
\* with the parameters the launch supplies, to what the shapes' expressions
\* are at z = idx under the dyn_map.
LaunchSupplies(idx) ==
    LET vals == KernelIdx(InputDynDims(opr.dyn_symbols, env[2]), idx)
        ref  == [x \in {"z"} \cup DOMAIN env[2] |-> IF x = "z" THEN idx ELSE env[2][x]]
    IN  \A i \in 1..Len(inputs) :
           LET exps == IF i = 1 THEN opr.a ELSE opr.b
           IN  /\ EvalC(exps.idx, vals) = Exec(inputs[i].shape.index, ref)
               /\ EvalC(exps.valid, vals) = Exec(inputs[i].shape.valid, ref)
               /\ EvalC(exps.idx, vals).ok
               /\ EvalC(exps.valid, vals).ok

\* An operator whose kernel is made of its input shapes has been constructed.
ShapedBuilt == opc \in {"built", "done"} /\ opr.kind \in BinaryKinds \cup ShapedKinds

\* C12 as stated: such an operator's dynamic-symbol list is, in order and without
\* duplicates, the list of the symbols that appear in the lowered index and
\* valid expressions of its inputs.
C12_SymbolsOfExpressions ==
    ShapedBuilt => opr.dyn_symbols = LoweredSymbols

\* C12 amended: such an operator's dynamic-symbol list holds, without duplicates
\* and in order of first occurrence, the symbols of its input shapes'
\* dimensions, padding and slices; every variable of the lowered index and
\* valid expressions other than the thread index is in the list, and the
\* launch supplies for it the dyn_map's value, so that the expressions
\* evaluate in the kernel to what they are under the dyn_map.
C12_DynSymbols ==
    ShapedBuilt =>
        /\ \A i, j \in 1..Len(opr.dyn_symbols) : i # j => opr.dyn_symbols[i] # opr.dyn_symbols[j]
        /\ {opr.dyn_symbols[i] : i \in 1..Len(opr.dyn_symbols)} = {Scanned[i] : i \in 1..Len(Scanned)}
        /\ \A i, j \in 1..Len(opr.dyn_symbols) :
              i < j => FirstAt(Scanned, opr.dyn_symbols[i]) < FirstAt(Scanned, opr.dyn_symbols[j])
        /\ \A i \in 1..Len(LoweredSymbols) :
              \E j \in 1..Len(opr.dyn_symbols) : opr.dyn_symbols[j] = LoweredSymbols[i]
        /\ opc = "done" => \A idx \in 0..(NElements(inputs[1].shape) - 1) : LaunchSupplies(idx)

\* A binary operator on a buffer without dynamic dimensions and a buffer
\* padded by p: the list is s, p, and a position of the padding is 0.
C12_Witness ==
    /\ opc = "done"
    /\ opr.kind = "Add"
    /\ inputs[2].shape = DynPadded(2, 1)
    /\ inputs[1].shape = Contiguous(<<3>>)
    /\ opr.dyn_symbols = <<"s", "p">>
    /\ result.out.data = <<Fin(2), Fin(4), Fin(3)>>

(***************************************************************************)
(* Kernel launches of a process call.                                      *)
(***************************************************************************)

\* The kernel launches of the process calls made so far.
Launches ==
    [i \in 1..Len(trail) |-> trail[i].launches]
    \o (IF opc = "done" THEN <<result.launches>> ELSE <<>>)

\* C13 as stated: every call of process performs exactly one kernel launch,
\* whatever the operator.
C13_OneLaunchEach ==
    \A i \in 1..Len(Launches) : Launches[i] = 1

ComputeKinds == UnaryKinds \cup BinaryKinds \cup ShapedKinds

\* C13 amended: a call of process on a unary, binary, contiguous or
\* reduction operator launches exactly one kernel; a call on CudaConstant
\* launches none (its one element is copied from the host), and a call on
\* CudaCopyToDevice or CudaCopyFromDevice launches none either (at most one
\* transfer between host and device).
C13_LaunchesByKind ==
    /\ opc = "done" =>
          /\ opr.kind \in ComputeKinds \cup {"Constant"}
          /\ opr.kind \in ComputeKinds => result.launches = 1 /\ result.htod = 0
          /\ opr.kind = "Constant" => result.launches = 0 /\ result.htod = 1
    /\ \A i \in 1..Len(trail) :
          trail[i].launches = 0 /\ trail[i].htod + trail[i].dtoh <= 1

\* A constant given by an expression of the symbol s has been processed:
\* one element, copied from the host, and no kernel.
C13_Witness ==
    /\ opc = "done"
    /\ opr.kind = "Constant"
    /\ opr.value.k = "Expression"
    /\ result.launches = 0
    /\ result.out.data = <<Fin(2)>>

(***************************************************************************)
(* Primitives with too few inputs in stage D.                              *)
(***************************************************************************)

\* Node n is of a primitive kind and has fewer incoming data edges than its
\* device operator takes shapes.
Mismatch(g, n) ==
    IsPrimitive(g.nodes[n]) /\ NumShapes(g, n) < ShapesNeeded(g.nodes[n].op)

\* Stage D has gone through the graph and left the mismatching nodes as they
\* were, the other primitives swapped.
SwappedButMismatches ==
    /\ pc' = "lowered"
    /\ \A n \in NodeIds(graph) :
          graph'.nodes[n] = IF IsPrimitive(graph.nodes[n]) /\ ~Mismatch(graph, n)
                            THEN CudaOp(graph.nodes[n]) ELSE graph.nodes[n]

\* C14 as stated: stage D leaves a primitive node with too few incoming data
\* edges untouched, does not abort and substitutes the remaining nodes.
C14_MismatchSkipped ==
    [][pc = "stageD" => SwappedButMismatches]_vars

\* C14 amended: stage D aborts when the graph has a node of kind Add, Mul,
\* Mod or LessThan with fewer than two incoming data edges, or a Contiguous
\* or reduce node with none; without such a node it swaps every primitive
\* node and leaves the nodes of other kinds untouched.
C14_MismatchAborts ==
    [][pc = "stageD" =>
         IF \E n \in NodeIds(graph) : Mismatch(graph, n)
         THEN pc' = "panic"
         ELSE SwappedButMismatches]_vars

\* Stage D has swapped a Log2 node and then aborted on an Add node with one
\* incoming data edge.
C14_Witness ==
    /\ pc = "panic"
    /\ \E n, m \in NodeIds(graph) :
          /\ graph.nodes[m].op = "CudaLog2"
          /\ graph.nodes[n].op = "Add"
          /\ NumShapes(graph, n) = 1

(***************************************************************************)
(* The stack of expr_to_cuda_string at the end of the terms.               *)
(***************************************************************************)

\* The terms that make the last operand of the expression: its one suffix
\* that is a well-formed expression.
LastOperand ==
    LET n == Len(expr)
        i == CHOOSE i \in 1..n : Depth(SubSeq(expr, i, n), 0) = 1
    IN  SubSeq(expr, i, n)

\* C15 as stated: a string is returned only when the stack holds exactly one
\* element at the end of the terms; with more than one there is no result.
C15_ExactlyOneElement ==
    (epc = "lowered" /\ lowered.ok) => lowered.depth = 1

\* C15 amended: a string is returned whenever no pop found the stack empty
\* and the stack holds at least one element at the end of the terms, and it
\* is the element on top; with more than one element this is the lowering
\* of the last operand, and the elements below it are dropped.
C15_TopOfStack ==
    epc = "lowered" =>
        /\ lowered.ok <=> Depth(expr, 0) >= 1
        /\ lowered.ok =>
              /\ lowered.depth = Depth(expr, 0)
              /\ lowered.str = RenderTerms(expr, <<>>).symbols[lowered.depth]
              /\ lowered.str = ExprToCudaString(LastOperand).str
              /\ Exec(LastOperand, SymbolVals(env)).ok =>
                     EvalC(lowered.str, KernelVals(env)) = Exec(LastOperand, SymbolVals(env))

\* 2 and z + s are left on the stack; the string returned is that of z + s.
C15_Witness ==
    /\ epc = "lowered"
    /\ expr = <<Num(2), Var("s"), Var("z"), Op("Add")>>
    /\ lowered.ok
    /\ lowered.depth = 2
    /\ EvalC(lowered.str, KernelVals(env)) = [ok |-> TRUE, v |-> 3]

(***************************************************************************)
(* One sweep of the copy-fusion pass.                                      *)
(***************************************************************************)

\* An edge from a copy to the inverse copy whose first node the sweep would
\* not skip.
FusiblePair(g) ==
    \E e \in EdgeIds(g) :
        /\ IsCopyPair(g, g.edges[e].src, g.edges[e].dst)
        /\ ~Pinned(g, g.edges[e].src)

\* C16 as stated: after one run of CopyCompiler::compile, on whatever graph,
\* no edge from a copy to the inverse copy is left whose first node is
\* fusible, so that a second run changes nothing.
C16_SingleSweep ==
    (pc = "fused" /\ sweeps = 1) => ~FusiblePair(graph)

\* C16 amended: after one run of CopyCompiler::compile no edge from a copy
\* to the inverse copy with a fusible first node is left of those the graph
\* had when the run began; on a graph that one run of the substitution pass
\* made of a graph without copy nodes none is left at all and a second run
\* changes nothing, but on other graphs the run itself can join a copy to
\* its inverse, and only a further run fuses them.
C16_PairsOfTheSweep ==
    (pc = "fused" /\ sweeps >= 1) =>
        /\ \A e \in EdgeIds(graph) :
              (/\ IsCopyPair(graph, graph.edges[e].src, graph.edges[e].dst)
               /\ ~Pinned(graph, graph.edges[e].src))
              => ~\E f \in EdgeIds(snap) :
                     /\ snap.edges[f].src = graph.edges[e].src
                     /\ snap.edges[f].dst = graph.edges[e].dst
        /\ (runs = 1 /\ sweeps = 1) => ~FusiblePair(graph)

\* After two runs of the substitution pass, one run of CopyCompiler::compile
\* has fused the inner pair of a chain of four copies and joined the outer
\* two, which are fusible.
C16_Witness ==
    /\ pc = "fused"
    /\ sweeps = 1
    /\ runs = 2
    /\ FusiblePair(graph)
    /\ \E n \in 1..Len(graph.nodes) : graph.nodes[n] = NoNode

(***************************************************************************)
(* Stage A of the substitution pass.                                       *)
(***************************************************************************)

\* Stage A of the first run has just been carried out; snap is the graph it
\* was handed.
AfterStageA == pc = "stageB" /\ runs = 1

\* The Function nodes of the handed graph that have an outgoing edge.
Producers == {n \in NodeIds(snap) : snap.nodes[n].op = "Function" /\ OutEdges(snap, n) # <<>>}

\* Node n has one outgoing edge and it goes to a CudaCopyToDevice node that
\* stage A has added.
OneCopyAfter(n) ==
    /\ Len(OutEdges(graph, n)) = 1
    /\ IsCopyTo(graph, graph.edges[OutEdges(graph, n)[1]].dst)
    /\ graph.edges[OutEdges(graph, n)[1]].dst \notin NodeIds(snap)

\* The copy node after n.
CopyAfter(n) == graph.edges[OutEdges(graph, n)[1]].dst

\* The payload of an edge: input order, output order and shape.
Payload(e) == <<e.io, e.oo, e.shape>>

\* C18 as stated: after stage A every Function node that had an outgoing edge
\* has exactly one, to a new CudaCopyToDevice node, and every node that
\* consumed its output has an edge from that copy node with the payload of
\* its former edge from the function.
C18_ConsumersFedByCopy ==
    AfterStageA =>
        \A n \in Producers :
            /\ OneCopyAfter(n)
            /\ \A e \in EdgeIds(snap) :
                  snap.edges[e].src = n =>
                      \E f \in EdgeIds(graph) :
                          /\ graph.edges[f].src = CopyAfter(n)
                          /\ graph.edges[f].dst = snap.edges[e].dst
                          /\ Payload(graph.edges[f]) = Payload(snap.edges[e])

\* Node m is a CudaCopyFromDevice node that stage A has added and whose one
\* input is node c.
CopyFromOf(m, c) ==
    /\ IsCopyFrom(graph, m)
    /\ m \notin NodeIds(snap)
    /\ Len(InEdges(graph, m)) = 1
    /\ graph.edges[InEdges(graph, m)[1]].src = c

\* C18 amended: after stage A every Function node that had an outgoing edge
\* has exactly one, to a new CudaCopyToDevice node; every node that consumed
\* its output has an edge with the payload of its former edge from the
\* function, which comes from that copy node, or, when the consumer is
\* itself a Function with an outgoing edge, from a new CudaCopyFromDevice
\* node whose input is that copy node.
C18_ConsumersFedThroughCopies ==
    AfterStageA =>
        \A n \in Producers :
            /\ OneCopyAfter(n)
            /\ \A e \in EdgeIds(snap) :
                  snap.edges[e].src = n =>
                      \E f \in EdgeIds(graph) :
                          /\ graph.edges[f].dst = snap.edges[e].dst
                          /\ Payload(graph.edges[f]) = Payload(snap.edges[e])
                          /\ IF snap.edges[e].dst \in Producers
                             THEN CopyFromOf(graph.edges[f].src, CopyAfter(n))
                             ELSE graph.edges[f].src = CopyAfter(n)

\* A function feeds a function that feeds a print: after stage A the first
\* has its copy to the device, and the second is fed by a copy from the
\* device of that copy.
C18_Witness ==
    /\ AfterStageA
    /\ \E n, d \in Producers :
          /\ \E e \in EdgeIds(snap) : snap.edges[e].src = n /\ snap.edges[e].dst = d
          /\ OneCopyAfter(n)
          /\ \E f \in EdgeIds(graph) :
                graph.edges[f].dst = d /\ CopyFromOf(graph.edges[f].src, CopyAfter(n))

(***************************************************************************)
(* The graph after the substitution pass.                                  *)
(***************************************************************************)

\* The first run of the substitution pass is over.
AfterPass == pc = "lowered" /\ runs = 1

\* C19: after the substitution pass every data edge that enters a Function
\* node, whether the function has outgoing edges or not, comes from a
\* CudaCopyFromDevice node.
C19_FunctionsSeeHost ==
    AfterPass =>
        \A e \in EdgeIds(graph) :
            graph.nodes[graph.edges[e].dst].op = "Function"
                => IsCopyFrom(graph, graph.edges[e].src)

\* C20: after the substitution pass on a graph without copy nodes every
\* member of the retrieval set is a Function node or a CudaCopyFromDevice
\* node: a retrieved node that is no function is not in the set any more,
\* and a new CudaCopyFromDevice node fed by it is.
C20_RetrievedOnHost ==
    AfterPass =>
        /\ \A n \in graph.ret :
              n \in NodeIds(graph) /\ graph.nodes[n].op \in {"Function", "CudaCopyFromDevice"}
        /\ \A n \in snap.ret :
              IF snap.nodes[n].op = "Function" THEN n \in graph.ret
              ELSE /\ n \notin graph.ret
                   /\ \E c \in graph.ret :
                         /\ CopyFromOf(c, n)
                         /\ graph.edges[InEdges(graph, c)[1]].shape = OutputShape(snap, n)

\* A function feeds a Log2 node that is retrieved: after the pass CudaLog2 is
\* not in the retrieval set and a copy from the device after it is.
C20_Witness ==
    /\ AfterPass
    /\ \E n \in snap.ret :
          /\ snap.nodes[n].op = "Log2"
          /\ graph.nodes[n].op = "CudaLog2"
          /\ n \notin graph.ret
          /\ \E c \in graph.ret : CopyFromOf(c, n)

\* ---------------------------------------------------------------------
\* The CudaPrimitiveOptimizer: a graph input feeding a chain of unary
\* primitives, optimized and then executed.

\* A tensor of the runtime: the data, the side it lives on, and its shape.
Tensor(side, data, shape) == [side |-> side, ty |-> "f32", data |-> data, shape |-> shape]

\* The nodes whose operator is named "Input".
InputNodes(g) == {n \in NodeIds(g) : g.nodes[n].op = "Input"}

\* The edges of the input towards everything but its copy node.
EdgesPastCopy(g, input_node, copy_node) ==
    SelectSeq(OutEdges(g, input_node), LAMBDA e : g.edges[e].dst # copy_node)

RECURSIVE CopyInputsToDevice(_, _)
\* for each input: a CudaCopyToDevice fed by it takes over its consumers,
\* and is kept when the input is kept
CopyInputsToDevice(g, ns) ==
    IF ns = <<>> THEN g
    ELSE LET input_node == Head(ns)
             g1 == AddOp1(g, CopyTo, input_node, ShapeOf(input_node))
             copy_node == Len(g1.nodes)
             g2 == MoveEdgesTo(g1, EdgesPastCopy(g1, input_node, copy_node), copy_node)
             g3 == IF input_node \in g2.keep
                   THEN [g2 EXCEPT !.keep = @ \cup {copy_node}]
                   ELSE g2
         IN  CopyInputsToDevice(g3, Tail(ns))

\* The kept nodes that are no inputs.
KeptOutputs(g) == {n \in g.keep : n \in NodeIds(g) /\ g.nodes[n].op # "Input"}

RECURSIVE CopyOutputsFromDevice_KeepReferences(_, _)
CopyOutputsFromDevice_KeepReferences(g, ns) ==
    IF ns = <<>> THEN g
    ELSE CopyOutputsFromDevice_KeepReferences(AddOp1(g, CopyFrom, Head(ns), ShapeOf(Head(ns))), Tail(ns))

RECURSIVE CopyOutputsFromDevice(_, _)
\* for each kept output: a CudaCopyFromDevice fed by it, which the
\* references to the output are moved to
CopyOutputsFromDevice(g, ns) ==
    IF ns = <<>> THEN g
    ELSE LET output_node == Head(ns)
             g1 == AddOp1(g, CopyFrom, output_node, ShapeOf(output_node))
             copy_node == Len(g1.nodes)
         IN  CopyOutputsFromDevice(MoveReferences(g1, output_node, copy_node), Tail(ns))

\* Log2, Exp2, Sin, Sqrt and Recip are swapped by name; the rest stays.
SwapPrimitives(g) ==
    [g EXCEPT !.nodes = [n \in 1..Len(g.nodes) |->
        IF g.nodes[n].op \in UnaryKinds THEN CudaOp(g.nodes[n]) ELSE g.nodes[n]]]

\* CudaPrimitiveOptimizer::optimize
PrimitiveOptimize(g) ==
    LET g1 == CopyInputsToDevice(g, SortAsc(InputNodes(g)))
        g2 == CopyOutputsFromDevice(g1, SortAsc(KeptOutputs(g1)))
    IN  SwapPrimitives(g2)

\* What process returns, or that it panicked.
Ran(out) == [ok |-> TRUE, out |-> out]

Panicked == [ok |-> FALSE, out |-> Tensor("host", <<>>, <<>>)]

\* CudaCopyToDevice::process: the operand must be a Vec<f32>
PrimCopyToDeviceProcess(inp) ==
    IF inp.side # "host" THEN Panicked
    ELSE Ran(Tensor("dev", inp.data, inp.shape))

\* CudaCopyFromDevice::process: the operand must be a CudaSlice<f32>
PrimCopyFromDeviceProcess(inp) ==
    IF inp.side # "dev" THEN Panicked
    ELSE Ran(Tensor("host", inp.data, inp.shape))

PrimUnaryProcess_Shifted(kind, inp) ==
    IF inp.side # "dev" THEN Panicked
    ELSE Ran(Tensor("dev",
                    [j \in 1..Product(inp.shape) |-> Unary(kind, Read(inp, j))],
                    inp.shape))

\* CudaLog2::process and its four siblings: the operand must be a
\* CudaSlice<f32>; thread i of shape-product many writes f(inp[i])
PrimUnaryProcess(kind, inp) ==
    IF inp.side # "dev" THEN Panicked
    ELSE Ran(Tensor("dev",
                    [j \in 1..Product(inp.shape) |-> Unary(kind, Read(inp, j - 1))],
                    inp.shape))

\* The primitive a swapped operator computes.
KindOf(op) == CHOOSE k \in UnaryKinds : CudaOp([op |-> k, arg |-> 0]).op = op

\* The host implementation of a primitive left in the graph.
HostUnaryProcess(kind, inp) ==
    IF inp.side # "host" THEN Panicked
    ELSE Ran(Tensor("host",
                    [j \in 1..Len(inp.data) |-> Unary(kind, inp.data[j])],
                    inp.shape))

\* Operator::process by the operator of the node.
PrimProcess(op, inp) ==
    CASE op = "CudaCopyToDevice" -> PrimCopyToDeviceProcess(inp)
      [] op = "CudaCopyFromDevice" -> PrimCopyFromDeviceProcess(inp)
      [] op \in UnaryKinds -> HostUnaryProcess(op, inp)
      [] OTHER -> PrimUnaryProcess(KindOf(op), inp)

RECURSIVE Execute(_, _, _)
\* Graph::execute, as far as node n is concerned: the operand of a node is
\* computed before the node; an input yields the vector set on it.
Execute(g, n, data) ==
    IF g.nodes[n].op = "Input" THEN Ran(Tensor("host", data, <<Len(data)>>))
    ELSE LET r == Execute(g, g.edges[InEdges(g, n)[1]].src, data)
         IN  IF r.ok THEN PrimProcess(g.nodes[n].op, r.out) ELSE r

\* The node a tensor handle resolves to after the references were moved.
Resolved(g) == CHOOSE n \in g.ret : TRUE

\* Chains of unary primitives.
Chains == UNION {[1..k -> UnaryKinds] : k \in 1..MaxChain}

\* An input (node 1) followed by the primitives of the chain.
ChainNodes(ks) ==
    <<[op |-> "Input", srcs |-> <<>>]>>
        \o [i \in 1..Len(ks) |-> [op |-> ks[i], srcs |-> <<i>>]]

\* The result of the chain is marked and retrieved; one more node may be
\* marked as well.
ChainGraphs ==
    {[Build(EmptyGraph, ChainNodes(ks)) EXCEPT
          !.ret = {Len(ks) + 1}, !.keep = {Len(ks) + 1, m}] :
        ks \in Chains, m \in 1..(MaxChain + 1)}

\* tensor.set(data)
InputVectors == UNION {[1..n -> {Fin(1), Fin(2), Fin(3)}] : n \in 1..MaxInput}

ChainInit ==
    /\ graph \in {g \in ChainGraphs : g.keep \subseteq NodeIds(g)}
    /\ pc = "marked"
    /\ runs = 0
    /\ sweeps = 0
    /\ snap = graph
    /\ cands = <<>>
    /\ elt = "f32"
    /\ orig \in InputVectors
    /\ tensor = Tensor("host", <<>>, <<>>)
    /\ trail = <<>>

InitChain == ChainInit /\ KernelIdle /\ ExprIdle /\ ComputeIdle

\* cx.optimize(CudaOptimizer::default())
OptimizeChain ==
    /\ pc = "marked"
    /\ graph' = PrimitiveOptimize(graph)
    /\ pc' = "optimized"
    /\ UNCHANGED <<runs, sweeps, snap, cands>>
    /\ UNCHANGED <<kvars, evars, bvars, cvars>>

\* cx.execute() and retrieve() of the marked tensor
ExecuteChain ==
    /\ pc = "optimized"
    /\ LET r == Execute(graph, Resolved(graph), orig)
       IN  /\ tensor' = r.out
           /\ pc' = IF r.ok THEN "executed" ELSE "panicked"
    /\ UNCHANGED <<graph, runs, sweeps, snap, cands>>
    /\ UNCHANGED <<elt, orig, trail>>
    /\ UNCHANGED <<kvars, evars, cvars>>

ChainNext == OptimizeChain \/ ExecuteChain

SpecChain == InitChain /\ [][ChainNext]_vars

\* The primitives of the marked chain, first to last.
ChainOf(g) == [i \in 1..(Len(g.nodes) - 1) |-> g.nodes[i + 1].op]

RECURSIVE Applied(_, _)
\* The primitives of a chain applied one after the other.
Applied(ks, x) == IF ks = <<>> THEN x ELSE Applied(Tail(ks), Unary(Head(ks), x))

\* C17: after optimize and execute of a graph where a host input vector
\* feeds a chain of unary primitives whose result is marked, the run has not
\* panicked, the marked tensor is host data produced by a
\* CudaCopyFromDevice, it has the length of the input, and its element i
\* is the chain's function applied to element i of the input.
C17_EndToEnd ==
    pc \in {"executed", "panicked"} =>
        /\ pc = "executed"
        /\ graph.nodes[Resolved(graph)] = CopyFrom
        /\ tensor.side = "host"
        /\ Len(tensor.data) = Len(orig)
        /\ \A i \in 1..Len(orig) : tensor.data[i] = Applied(ChainOf(snap), orig[i])

\* Log2 of [1, 2, 3] has been retrieved as [0, 1, log2 3].
C17_Witness ==
    /\ pc = "executed"
    /\ ChainOf(snap) = <<"Log2">>
    /\ orig = <<Fin(1), Fin(2), Fin(3)>>
    /\ tensor.data = <<Fin(0), Fin(1), App("Log2", Fin(3))>>

(***************************************************************************)
(* Retrieved functions.                                                    *)
(***************************************************************************)

\* The Function nodes with outgoing edges that were to be retrieved when the
\* pass began.
RetrievedProducers == {n \in Producers : n \in snap.ret}

\* The substitution pass is past stage B and has not aborted.
PastStageB == pc \in {"stageC", "stageD", "lowered"}

\* C21: for a Function node with outgoing edges that is in the retrieval set
\* before the pass, stage A puts its CudaCopyToDevice node into the retrieval
\* set, and once stage B is over the copy node is in neither the retrieval
\* nor the no-delete set and the Function node is in both.
C21_RetrievalBackToFunction ==
    /\ pc = "stageB" =>
          \A n \in RetrievedProducers :
              OneCopyAfter(n) /\ CopyAfter(n) \in graph.ret
    /\ PastStageB =>
          \A n \in RetrievedProducers :
              /\ OneCopyAfter(n)
              /\ CopyAfter(n) \notin graph.ret
              /\ CopyAfter(n) \notin graph.keep
              /\ n \in graph.ret
              /\ n \in graph.keep

\* A retrieved function that feeds a Log2: the pass has run, the function
\* is retrieved and kept, its copy node is not.
C21_Witness ==
    /\ pc = "lowered"
    /\ runs = 1
    /\ \E n \in RetrievedProducers :
          /\ OneCopyAfter(n)
          /\ CopyAfter(n) \notin graph.ret \cup graph.keep
          /\ n \in graph.ret \cap graph.keep
          /\ \E e \in EdgeIds(graph) :
                graph.edges[e].src = CopyAfter(n) /\ graph.nodes[graph.edges[e].dst].op = "CudaLog2"

(***************************************************************************)
(* The substitution pass on graphs with primitives of every kind.          *)
(***************************************************************************)
\* What a node of such a graph can be: a function or a constant without
\* inputs, or a unary primitive, a binary primitive, a Contiguous, a
\* reduction along a dim or a print with inputs among the first N nodes.
KindChoices(N) ==
    {[op |-> "Function", srcs |-> <<>>, arg |-> 0]}
    \cup {[op |-> "Constant", srcs |-> <<>>, arg |-> v] : v \in 0..1}
    \cup {[op |-> o, srcs |-> <<s>>, arg |-> 0] :
            o \in UnaryKinds \cup {"Contiguous", "Print"}, s \in 1..N}
    \cup {[op |-> o, srcs |-> <<s>>, arg |-> d] :
            o \in {"SumReduce", "MaxReduce"}, s \in 1..N, d \in 0..1}
    \cup {[op |-> o, srcs |-> <<s, t>>, arg |-> 0] :
            o \in BinaryKinds, s \in 1..N, t \in 1..N}

\* The built graph with Constant's value and the reductions' dim set.
WithArgs(g, d) ==
    [g EXCEPT !.nodes = [n \in 1..Len(g.nodes) |-> [op |-> g.nodes[n].op, arg |-> d[n].arg]]]

\* The graphs of N nodes: each node is fed by earlier nodes, none by a print.
KindDescriptions(N) ==
    {d \in [1..N -> KindChoices(N)] :
        \A j \in 1..N : \A i \in 1..Len(d[j].srcs) :
            d[j].srcs[i] < j /\ d[d[j].srcs[i]].op # "Print"}

KindInit ==
    /\ \E N \in 1..MaxKinded : \E d \in KindDescriptions(N) :
          graph \in {m \in Marked(WithArgs(Build(EmptyGraph, d), d)) : m.ret = m.keep}
    /\ pc = "ready"
    /\ runs = 0
    /\ sweeps = 0
    /\ snap = graph
    /\ cands = <<>>

InitKinds == KindInit /\ KernelIdle /\ ExprIdle /\ BoundaryIdle /\ ComputeIdle

\* CudaPrimitiveCompiler::compile
SubstitutionNext ==
    \/ PrimStageA
    \/ PrimStageB
    \/ PrimStageC
    \/ PrimStageD

SpecKinds == InitKinds /\ [][SubstitutionNext]_vars

\* The Cuda operator that corresponds to each of the thirteen kinds.
Corresponding ==
    [k \in PrimitiveKinds |->
        CASE k = "Log2" -> "CudaLog2"
          [] k = "Exp2" -> "CudaExp2"
          [] k = "Sin" -> "CudaSin"
          [] k = "Sqrt" -> "CudaSqrt"
          [] k = "Recip" -> "CudaRecip"
          [] k = "Constant" -> "CudaConstant"
          [] k = "Add" -> "CudaAdd"
          [] k = "Mul" -> "CudaMul"
          [] k = "Mod" -> "CudaMod"
          [] k = "LessThan" -> "CudaLessThan"
          [] k = "Contiguous" -> "CudaContiguous"
          [] k = "SumReduce" -> "CudaSumReduce"
          [] k = "MaxReduce" -> "CudaMaxReduce"]

\* Stage D runs to its end in this step.
StageDStep == pc = "stageD" /\ pc' = "lowered"

\* C22: a step of stage D adds and removes no node and no edge and changes
\* neither the retrieval nor the no-delete set; each node of one of the
\* thirteen kinds gets the corresponding Cuda operator with its dim or value
\* kept, every other node keeps its payload, and no node of the thirteen
\* kinds remains.
C22_StageDInPlace ==
    [][StageDStep =>
          /\ Len(graph'.nodes) = Len(graph.nodes)
          /\ NodeIds(graph') = NodeIds(graph)
          /\ graph'.edges = graph.edges
          /\ graph'.ret = graph.ret
          /\ graph'.keep = graph.keep
          /\ \A n \in NodeIds(graph) :
                IF graph.nodes[n].op \in PrimitiveKinds
                THEN /\ graph'.nodes[n].op = Corresponding[graph.nodes[n].op]
                     /\ graph'.nodes[n].arg = graph.nodes[n].arg
                ELSE graph'.nodes[n] = graph.nodes[n]
          /\ \A n \in NodeIds(graph') : graph'.nodes[n].op \notin PrimitiveKinds]_vars

\* A constant of value 1 reduced along dim 1: after the pass the nodes are a
\* CudaConstant of value 1 and a CudaSumReduce along dim 1.
C22_Witness ==
    /\ pc = "lowered"
    /\ \E c, r \in NodeIds(snap) :
          /\ snap.nodes[c] = [op |-> "Constant", arg |-> 1]
          /\ snap.nodes[r] = [op |-> "SumReduce", arg |-> 1]
          /\ graph.nodes[c] = [op |-> "CudaConstant", arg |-> 1]
          /\ graph.nodes[r] = [op |-> "CudaSumReduce", arg |-> 1]
          /\ \E e \in EdgeIds(graph) : graph.edges[e].src = c /\ graph.edges[e].dst = r

(***************************************************************************)
(* The copy-fusion pass on its own: CopyCompiler is a compiler of its own  *)
(* and runs after passes that leave copies of either direction behind.     *)
(***************************************************************************)
\* What the node after the first N nodes can be: a copy to the device, a
\* copy from it or a device operator fed by one of them; the first node is
\* a function without inputs.
CopyChoices(N) ==
    IF N = 0 THEN {[op |-> "Function", srcs |-> <<>>]}
    ELSE {[op |-> o, srcs |-> <<s>>] :
            o \in {"CudaCopyToDevice", "CudaCopyFromDevice", "CudaLog2"}, s \in 1..N}

RECURSIVE CopyDescriptions(_)
\* The graphs of N nodes, node after node.
CopyDescriptions(N) ==
    IF N = 0 THEN {<<>>}
    ELSE {Append(d, c) : d \in CopyDescriptions(N - 1), c \in CopyChoices(N - 1)}

RECURSIVE AddNodes(_, _)
AddNodes(g, ds) ==
    IF ds = <<>> THEN g
    ELSE AddNodes(AddNode(g, [op |-> Head(ds).op, arg |-> 0]), Tail(ds))

RECURSIVE InputsDown(_, _, _)
\* The edges of the nodes, those of the last node first.
InputsDown(g, ds, n) ==
    IF n = 0 THEN g ELSE InputsDown(AddInputs(g, n, ds[n].srcs, 1), ds, n - 1)

\* The edge indices of a graph follow the order in which its edges were
\* added: node by node, or (after the rewiring of earlier passes) otherwise.
BuildEither(d) == {Build(EmptyGraph, d), InputsDown(AddNodes(EmptyGraph, d), d, Len(d))}

\* At most one node is marked: kept, or retrieved and kept.
MarkedOnce(g) ==
    {g} \cup {[g EXCEPT !.keep = {n}] : n \in NodeIds(g)}
        \cup {[g EXCEPT !.keep = {n}, !.ret = {n}] : n \in NodeIds(g)}

CopyInit ==
    /\ \E N \in 1..MaxCopied : \E d \in CopyDescriptions(N) : \E g \in BuildEither(d) :
          graph \in MarkedOnce(g)
    /\ pc = "lowered"
    /\ runs = 0
    /\ sweeps = 0
    /\ snap = graph
    /\ cands = <<>>

InitCopy == CopyInit /\ KernelIdle /\ ExprIdle /\ BoundaryIdle /\ ComputeIdle

\* CopyCompiler::compile
CopyNext ==
    \/ CopyCollect
    \/ CopyStep

SpecCopy == InitCopy /\ [][CopyNext]_vars

(***************************************************************************)
(* The copy-fusion pass, pair by pair.                                     *)
(***************************************************************************)

\* The pair the sweep considers next.
First == Head(cands)[1]

Second == Head(cands)[2]

\* The sweep considers a pair whose first it finds pinned.
SkipStep == pc = "fusing" /\ Pinned(graph, First)

\* The sweep fuses a pair.
FuseStep == pc = "fusing" /\ ~Pinned(graph, First) /\ pc' # "panic"

RECURSIVE PinnedFirsts(_, _)
\* The nodes that were first of a pair and found pinned in a sweep that
\* began on graph g with the pairs cs.
PinnedFirsts(g, cs) ==
    IF cs = <<>> THEN {}
    ELSE LET r == FusePair(g, Head(cs)[1], Head(cs)[2])
         IN  (IF Pinned(g, Head(cs)[1]) THEN {Head(cs)[1]} ELSE {})
             \cup (IF r.ok THEN PinnedFirsts(r.g, Tail(cs)) ELSE {})

\* The sweep that began on snap has gone through all its pairs.
SweepOver == pc = "fused" /\ sweeps > 0

\* C23 as stated: a pair whose first feeds a node that is no copy, or is in
\* the no-delete set, leaves the graph and both sets as they were, and every
\* node found pinned as a first is in the graph when the sweep ends.
C23_PinnedStays ==
    [][/\ SkipStep => graph' = graph
       /\ SweepOver' =>
             \A n \in PinnedFirsts(snap', Candidates(snap')) : n \in NodeIds(graph')]_vars

\* C23 amended: a pair whose first feeds a node that is no copy, or is in
\* the no-delete set, leaves the graph and both sets as they were, first
\* being in the graph after the pair was considered.
C23_SkippedPairUntouched ==
    [][SkipStep => graph' = graph /\ First \in NodeIds(graph')]_vars

\* A sweep is over in which a pair with a kept first was skipped and another
\* pair was fused; the kept first is in the graph.
C23_Witness ==
    /\ SweepOver
    /\ NodeIds(graph) # NodeIds(snap)
    /\ \E n \in PinnedFirsts(snap, Candidates(snap)) : n \in snap.keep /\ n \in NodeIds(graph)

\* The source of the pair that is fused: the first of first's sources.
Source == GetSources(graph, First)[1]

\* C24: when a pair (first, second) is fused, afterwards first and second are
\* deleted, every node that consumed second's output has an edge from source
\* with the same payload, and if second was in the retrieval or the
\* no-delete set then source is in that set and second is not.
C24_FusionRewires ==
    [][FuseStep =>
          /\ First \notin NodeIds(graph')
          /\ Second \notin NodeIds(graph')
          /\ \A e \in EdgeIds(graph) :
                graph.edges[e].src = Second =>
                    \E f \in EdgeIds(graph') :
                        /\ graph'.edges[f].src = Source
                        /\ graph'.edges[f].dst = graph.edges[e].dst
                        /\ Payload(graph'.edges[f]) = Payload(graph.edges[e])
          /\ Second \in graph.ret => Source \in graph'.ret /\ Second \notin graph'.ret
          /\ Second \in graph.keep => Source \in graph'.keep /\ Second \notin graph'.keep]_vars

\* A sweep has fused one pair whose second was retrieved and fed a device
\* operator: both copies are gone, the operator is fed by the source, and
\* the source is retrieved.
C24_Witness ==
    /\ SweepOver
    /\ Len(Candidates(snap)) = 1
    /\ LET first  == Candidates(snap)[1][1]
           second == Candidates(snap)[1][2]
           source == GetSources(snap, first)[1]
       IN  /\ second \in snap.ret
           /\ first \notin NodeIds(graph)
           /\ second \notin NodeIds(graph)
           /\ source \in graph.ret
           /\ \E e \in EdgeIds(snap) : \E f \in EdgeIds(graph) :
                 /\ snap.edges[e].src = second
                 /\ graph.edges[f].src = source
                 /\ graph.edges[f].dst = snap.edges[e].dst

\* Node n is a copy of the direction inverse to that of copy m.
InverseOf(g, n, m) ==
    \/ IsCopyTo(g, m) /\ IsCopyFrom(g, n)
    \/ IsCopyFrom(g, m) /\ IsCopyTo(g, n)

\* C25: whenever a pair (first, second) is fused, every destination of
\* first, second and the others that are deleted with it, is a copy of the
\* direction inverse to first; no copy of first's direction is deleted.
C25_DestsInverse ==
    [][FuseStep =>
          /\ \A i \in 1..Len(GetDests(graph, First)) :
                InverseOf(graph, GetDests(graph, First)[i], First)
          /\ \A n \in NodeIds(graph) \ NodeIds(graph') :
                n # First => InverseOf(graph, n, First)]_vars

(***************************************************************************)
(* The same operators executed again after the dyn_map has changed.        *)
(***************************************************************************)
\* The shape st, which has its sizes under the dyn_map m, under the dyn_map n.
Reshape(st, m, n) ==
    IF st = DynContiguous(<<m.s>>) THEN DynContiguous(<<n.s>>)
    ELSE IF st = DynPadded(m.s, m.p) THEN DynPadded(n.s, n.p)
    ELSE IF Len(st.dims) = 2 /\ st = DynContiguous(<<st.dims[1], m.s>>)
         THEN DynContiguous(<<st.dims[1], n.s>>)
    ELSE IF Len(st.dims) = 2 /\ st = DynExpanded(st.dims[1], m.s)
         THEN DynExpanded(st.dims[1], n.s)
    ELSE st

\* cx.set_dyn_dim(..) between two executions: the dyn_map changes, and the
\* next execution hands the operator inputs of the new sizes.
SetDynMap ==
    /\ opc = "done"
    /\ trail = <<>>
    /\ \E m \in DynMaps \ {env[2]} :
          LET new == [i \in 1..Len(inputs) |->
                         LET st == Reshape(inputs[i].shape, env[2], m)
                         IN  Input(elt, st, [j \in 1..st.phys |-> Fin(j)])]
          IN  /\ \A i \in 1..Len(new) : new[i].shape.dims = new[1].shape.dims
              /\ inputs' = new
              /\ env' = <<env[1], m>>
    /\ trail' = <<[dyn |-> env[2], out |-> result.out]>>
    /\ opc' = "built"
    /\ UNCHANGED <<opr, result>>
    /\ UNCHANGED <<expr, lowered, epc>>
    /\ UNCHANGED <<elt, orig, tensor>>
    /\ UNCHANGED <<gvars, kvars>>

RerunNext ==
    \/ ComputeNext
    \/ SetDynMap

SpecRerun == InitDyn /\ [][RerunNext]_vars

\* The operator has been executed a second time, after the dyn_map changed.
SecondExecution == opc = "done" /\ trail # <<>>

\* The value of an expression of a shape at logical index z under the
\* dyn_map as it is now.
NowAt(terms, z) ==
    Exec(terms, [x \in {"z"} \cup DOMAIN env[2] |-> IF x = "z" THEN z ELSE env[2][x]]).v

\* The input value at logical index z under the dyn_map as it is now.
NowLogical(inp, z) ==
    IF NowAt(inp.shape.valid, z) = 0 THEN Fin(0)
    ELSE inp.buf.data[NowAt(inp.shape.index, z) + 1]

\* C26: the dyn_map is read at each call of process: in an execution that
\* follows a change of the map, a CudaConstant holding the expression c * 2
\* yields twice the value c has now, the launch supplies the values the
\* dynamic symbols have now, and CudaContiguous yields the input's logical
\* elements under the map as it is now.
C26_MapReadAtCall ==
    SecondExecution =>
        /\ trail[1].dyn # env[2]
        /\ (opr.kind = "Constant" /\ opr.value.k = "Expression") =>
              \E c \in DOMAIN env[2] :
                  /\ opr.value.e = <<Var(c), Num(2), Op("Mul")>>
                  /\ result.out.data = <<Fin(2 * env[2][c])>>
        /\ opr.kind \in BinaryKinds \cup ShapedKinds =>
              \A idx \in 0..(NElements(inputs[1].shape) - 1) : LaunchSupplies(idx)
        /\ opr.kind = "Contiguous" =>
              /\ Len(result.out.data) = NElements(inputs[1].shape)
              /\ \A idx \in 0..(NElements(inputs[1].shape) - 1) :
                    result.out.data[idx + 1] = NowLogical(inputs[1], idx)

\* The constant s * 2 was 2 when s was 1 and is 4 now that s is 2.
C26_Witness ==
    /\ SecondExecution
    /\ opr.kind = "Constant"
    /\ opr.value.k = "Expression"
    /\ opr.value.e = <<Var("s"), Num(2), Op("Mul")>>
    /\ trail[1].dyn.s = 1
    /\ trail[1].out.data = <<Fin(2)>>
    /\ env[2].s = 2
    /\ result.out.data = <<Fin(4)>>

(***************************************************************************)
(* C27: the pairs of one sweep and the nodes already deleted in it.        *)
(***************************************************************************)
\* C27: during one sweep of the copy-fusion pass every pair that is
\* processed (not skipped) names two nodes that are still in the graph: no
\* source is looked up of, and nothing is rewired from or deleted at, a node
\* an earlier pair of the same sweep deleted.
C27_PairsAlive ==
    (pc = "fusing" /\ ~Pinned(graph, First)) =>
        (First \in NodeIds(graph) /\ Second \in NodeIds(graph))


(***************************************************************************)
(* C28: what the copy-fusion pass deletes.                                 *)
(***************************************************************************)
\* The nodes a step took out of the graph.
Deleted == NodeIds(graph) \ NodeIds(graph')

\* C28: the copy-fusion pass never adds a node and deletes only copy nodes:
\* a node that is no copy is in the graph after every pair with the payload
\* it had, and each fusion removes at least two copy nodes.
C28_OnlyCopiesDeleted ==
    [][pc = "fusing" =>
         /\ NodeIds(graph') \subseteq NodeIds(graph)
         /\ \A n \in Deleted : IsCopyTo(graph, n) \/ IsCopyFrom(graph, n)
         /\ \A n \in NodeIds(graph) :
               ~(IsCopyTo(graph, n) \/ IsCopyFrom(graph, n)) =>
                   n \in NodeIds(graph') /\ graph'.nodes[n] = graph.nodes[n]
         /\ FuseStep => Cardinality(Deleted) >= 2]_vars


(***************************************************************************)
(* C29: the function a call of compile_and_load_kernel returns.            *)
(***************************************************************************)
\* C29: in any sequence of compile_and_load_kernel calls on one device the
\* function each call returns is the one compiled from the source passed to
\* that call, so two calls with different sources never return the same
\* function, whatever the hashes of the two sources are.
C29_FunctionOfSource ==
    /\ \A i \in 1..Len(calls) : calls[i].fn.code = calls[i].code
    /\ \A i, j \in 1..Len(calls) :
          (calls[i].dev = calls[j].dev /\ calls[i].code # calls[j].code) =>
              calls[i].fn # calls[j].fn


(***************************************************************************)
(* C30: stage B and a retrieved node that has no incoming data edge.       *)
(***************************************************************************)
\* The retrieved nodes that are no functions and have no incoming data edge.
Unfed(g) ==
    {n \in g.ret \cap NodeIds(g) : g.nodes[n].op # "Function" /\ InEdges(g, n) = <<>>}

\* The copies from the device that stand behind a node that is no function.
RetrievalCopies(g) ==
    {c \in NodeIds(g) :
        /\ IsCopyFrom(g, c)
        /\ \E e \in EdgeIds(g) :
              g.edges[e].dst = c /\ g.nodes[g.edges[e].src].op # "Function"
        /\ ~\E e \in EdgeIds(g) : g.edges[e].src = c}

\* C30: when the retrieval set holds a node that is no function and has no
\* incoming data edge, stage B aborts: the graph is as stage A left it, with
\* no copy from the device inserted for retrieval and no primitive
\* substituted, and nothing runs after the abort.
C30_StageBAborts ==
    [][/\ (pc = "stageB" /\ Unfed(graph) # {}) =>
             /\ pc' = "panic"
             /\ graph' = graph
             /\ RetrievalCopies(graph') = {}
             /\ \A n \in NodeIds(graph') : \A k \in PrimitiveKinds :
                   graph'.nodes[n].op # Corresponding[k]
       /\ pc = "panic" => graph' = graph]_vars

\* A constant marked for retrieval made stage B abort, other nodes being
\* in the graph with their frontend kinds.
C30_Witness ==
    /\ pc = "panic"
    /\ \E n \in Unfed(graph) : graph.nodes[n].op = "Constant"
    /\ \E n \in NodeIds(graph) : graph.nodes[n].op \in {"Log2", "Add", "SumReduce"}

====
